---- MODULE Spec2Model ----
(***************************************************************************)
(* wplace-image-conversion: the image-transform library                    *)
(* (src/src/lib/functions.ts) and the request life cycle of the App        *)
(* component (src/src/App.tsx, processImage).                              *)
(*                                                                         *)
(* Byte buffers (Uint8ClampedArray) live in a heap and are referred to by  *)
(* reference, as in JavaScript: an ImageData is a record holding the       *)
(* reference of its data array, so in-place mutation and aliasing are      *)
(* visible.  A byte buffer is a function 0..n-1 -> 0..255 in row-major     *)
(* RGBA order, four bytes per pixel, indexed exactly as the code indexes.  *)
(***************************************************************************)
EXTENDS Integers, Sequences, FiniteSets, TLC

VARIABLES
    \* ---- state of the App component (useState / useRef)
    blockSize,          \* slider value
    ditherChecked,      \* checkbox
    noPixelateChecked,  \* checkbox
    selectedColors,     \* name -> BOOLEAN, the additional palette colours
    currentImage,       \* index of the loaded image in Images, or NoImage
    processing,         \* busy flag
    processedCanvas,    \* reference of the published canvas bitmap, or NullRef
    showPreview,
    currentBlockSize,   \* useRef(0): the effective block size of the last run
    \* ---- the pending setTimeout callback and the callback being executed
    timer,              \* <<>> or <<closure>>: the values processImage closed over
    pc,                 \* position inside the deferred callback, "idle" outside
    frame,              \* locals of the deferred callback
    calls,              \* library functions called by the running callback, in order
    runs,               \* number of requests started so far
    \* ---- objects
    heap,               \* sequence of byte buffers; a reference is an index
    \* ---- activation record of a library function called on its own
    args,               \* the arguments as passed
    loc,                \* the locals of the activation
    ret                 \* what it returned (NotReturned before that)

appVars == <<blockSize, ditherChecked, noPixelateChecked, selectedColors,
             currentImage, processing, processedCanvas, showPreview,
             currentBlockSize>>
runVars == <<timer, pc, frame, calls, runs>>
libVars == <<args, loc, ret>>
vars == <<appVars, runVars, heap, libVars>>

(***************************************************************************)
(* Bounds of the model.                                                    *)
(***************************************************************************)
MaxDim == 7          \* adjustImageSize: source dimensions 1..MaxDim
MaxBlock == 4        \* adjustImageSize: block sizes 1..MaxBlock
MaxPalette == 3      \* longest palette handed to the nearest-colour search
MaxFlattenPixels == 2 \* flattenAlpha: buffers of 1..MaxFlattenPixels pixels
MaxCalls == 2        \* flattenAlpha: applied up to MaxCalls times to one buffer
MaxQuantizePixels == 2 \* quantizeToNearestColor: buffers of 1..MaxQuantizePixels pixels
MaxDitherPixels == 6 \* floydSteinbergDither: images of width * height <= MaxDitherPixels
MaxComparePixels == 4   \* the two reducers side by side: images of at most this many pixels
MaxSlider == 3       \* App: slider positions SliderMin..MaxSlider (the page allows up to 12)
MaxRuns == 1         \* App: processing requests per session
MaxCanvasDim == 4    \* pixelateImage: canvases of 1..MaxCanvasDim pixels a side
MaxPixelateBlock == 4 \* pixelateImage: block sizes 0..MaxPixelateBlock

\* The null reference (useState(null)); heap references start at 1.
NullRef == 0

Max(a, b) == IF a >= b THEN a ELSE b
Min(a, b) == IF a <= b THEN a ELSE b

(***************************************************************************)
(* adjustImageSize (functions.ts 2-11).  For positive integers              *)
(* Math.floor(a / b) is integer division.                                   *)
(***************************************************************************)
\* variant: the minimum of one block is not applied
AtLeastOneBlock_Dropped(adjusted, bs) == adjusted

AtLeastOneBlock(adjusted, bs) == Max(adjusted, bs)

adjustImageSize(originalWidth, originalHeight, bs) ==
    LET adjustedWidth == (originalWidth \div bs) * bs
        adjustedHeight == (originalHeight \div bs) * bs
    IN [width |-> AtLeastOneBlock(adjustedWidth, bs),
        height |-> AtLeastOneBlock(adjustedHeight, bs)]

(***************************************************************************)
(* findNearestPaletteColor (functions.ts 65-79).  A palette is a sequence  *)
(* of colours <<r, g, b>>; color[0] of the code is color[1] here.          *)
(* Infinity is modelled by a number above every distance between two       *)
(* 8-bit colours, which is all `distance < Infinity` needs.                *)
(***************************************************************************)
Infinity == 3 * 255 * 255 + 1

\* palette[0] of an empty array is undefined
Undefined == <<>>

Distance(r, g, b, color) ==
    (r - color[1]) * (r - color[1]) +
    (g - color[2]) * (g - color[2]) +
    (b - color[3]) * (b - color[3])

\* variants of the comparison: reversed, and non-strict
Closer_Reversed(distance, minDistance) == distance > minDistance
Closer_OrEqual(distance, minDistance) == distance <= minDistance

\* the comparison of line 73
Closer(distance, minDistance) == distance < minDistance

\* nearestColor is a reference to a palette entry: it is modelled by the
\* entry's index (0 for undefined), so that two equal entries stay distinct.
RECURSIVE NearestLoop(_, _, _, _, _, _, _)
NearestLoop(r, g, b, palette, i, minDistance, nearestColor) ==
    IF i > Len(palette) THEN nearestColor
    ELSE LET color == palette[i]
             distance == Distance(r, g, b, color)
         IN IF Closer(distance, minDistance)
            THEN NearestLoop(r, g, b, palette, i + 1, distance, i)
            ELSE NearestLoop(r, g, b, palette, i + 1, minDistance, nearestColor)

\* variant: the loop is left at the first entry
findNearestPaletteIndex_FirstEntry(r, g, b, palette) ==
    IF Len(palette) > 0 THEN 1 ELSE 0

findNearestPaletteIndex(r, g, b, palette) ==
    NearestLoop(r, g, b, palette, 1, Infinity, IF Len(palette) > 0 THEN 1 ELSE 0)

findNearestPaletteColor(r, g, b, palette) ==
    LET k == findNearestPaletteIndex(r, g, b, palette)
    IN IF k = 0 THEN Undefined ELSE palette[k]

(***************************************************************************)
(* Uint8ClampedArray stores.  Storing a number clamps it to [0, 255] and   *)
(* rounds it to the nearest integer, ties to the even one.  The values     *)
(* the code stores are integers or multiples of 1/16, so a value is given  *)
(* as a numerator over 16.                                                 *)
(***************************************************************************)
ToUint8Clamp16(n16) ==
    LET c == Max(0, Min(255 * 16, n16))
        q == c \div 16
        rem == c % 16
    IN IF rem < 8 THEN q
       ELSE IF rem > 8 THEN q + 1
       ELSE IF q % 2 = 0 THEN q ELSE q + 1

ToUint8Clamp(n) == Max(0, Min(255, n))

\* number of pixels of a byte buffer
Pixels(data) == Cardinality(DOMAIN data) \div 4
Length(data) == Cardinality(DOMAIN data)

\* pixel number k (row-major) of a byte buffer, as <<r, g, b, a>>
PixelAt(data, k) == <<data[4 * k], data[4 * k + 1], data[4 * k + 2], data[4 * k + 3]>>
RGBAt(data, k) == <<data[4 * k], data[4 * k + 1], data[4 * k + 2]>>
AlphaAt(data, k) == data[4 * k + 3]

(***************************************************************************)
(* flattenAlpha (functions.ts 44-62).                                      *)
(* Math.round(c * (a/255) + bg * (1 - a/255)): the exact value is          *)
(* (c*a + bg*(255-a)) / 255, which is never at distance < 1/510 from a     *)
(* half-integer, far above the rounding error of the double computation,   *)
(* so Math.round of the double is the rounding of the exact quotient.      *)
(***************************************************************************)
backgroundColor == [r |-> 255, g |-> 255, b |-> 255]

\* Math.round(num / den) for num >= 0, den > 0
MathRound(num, den) == (2 * num + den) \div (2 * den)

\* variant: the blend is truncated instead of rounded
Composite_Floor(c, bg, a) == (c * a + bg * (255 - a)) \div 255

Composite(c, bg, a) == MathRound(c * a + bg * (255 - a), 255)

\* variant: the alpha byte is left as it was
FlattenPixel_KeepAlpha(data, i) ==
    LET a == data[i + 3]
    IN IF a < 255
       THEN [data EXCEPT ![i] = ToUint8Clamp(Composite(data[i], backgroundColor.r, a)),
                         ![i + 1] = ToUint8Clamp(Composite(data[i + 1], backgroundColor.g, a)),
                         ![i + 2] = ToUint8Clamp(Composite(data[i + 2], backgroundColor.b, a))]
       ELSE data

FlattenPixel(data, i) ==
    LET r == data[i]
        g == data[i + 1]
        b == data[i + 2]
        a == data[i + 3]
    IN IF a < 255
       THEN [data EXCEPT ![i] = ToUint8Clamp(Composite(r, backgroundColor.r, a)),
                         ![i + 1] = ToUint8Clamp(Composite(g, backgroundColor.g, a)),
                         ![i + 2] = ToUint8Clamp(Composite(b, backgroundColor.b, a)),
                         ![i + 3] = 255]
       ELSE data

RECURSIVE FlattenLoop(_, _)
FlattenLoop(data, i) ==
    IF i < Length(data) THEN FlattenLoop(FlattenPixel(data, i), i + 4) ELSE data

\* mutates the data array of imageData in place; returns nothing
flattenAlpha(h, imageData) ==
    [h EXCEPT ![imageData.data] = FlattenLoop(h[imageData.data], 0)]

(***************************************************************************)
(* quantizeToNearestColor (functions.ts 139-150): in place, returns its    *)
(* argument.  Destructuring the undefined result of the search on an empty *)
(* palette throws a TypeError, at the first pixel.                         *)
(***************************************************************************)
\* variant: the pixel is also made opaque
QuantizePixel_Opaque(data, i, palette) ==
    LET c == findNearestPaletteColor(data[i], data[i + 1], data[i + 2], palette)
    IN [data EXCEPT ![i] = ToUint8Clamp(c[1]),
                    ![i + 1] = ToUint8Clamp(c[2]),
                    ![i + 2] = ToUint8Clamp(c[3]),
                    ![i + 3] = 255]

QuantizePixel(data, i, palette) ==
    LET c == findNearestPaletteColor(data[i], data[i + 1], data[i + 2], palette)
    IN [data EXCEPT ![i] = ToUint8Clamp(c[1]),
                    ![i + 1] = ToUint8Clamp(c[2]),
                    ![i + 2] = ToUint8Clamp(c[3])]

RECURSIVE QuantizeLoop(_, _, _)
QuantizeLoop(data, i, palette) ==
    IF i < Length(data)
    THEN QuantizeLoop(QuantizePixel(data, i, palette), i + 4, palette)
    ELSE data

\* variant: an empty palette is tolerated, the pixels become black
quantizeToNearestColor_Silent(h, imageData, palette) ==
    [heap |-> [h EXCEPT ![imageData.data] =
                  IF Len(palette) = 0
                  THEN [i \in DOMAIN h[imageData.data] |->
                           IF i % 4 = 3 THEN h[imageData.data][i] ELSE 0]
                  ELSE QuantizeLoop(h[imageData.data], 0, palette)],
     kind |-> "return", value |-> imageData]

\* [heap, kind, value]: kind "return" with the returned ImageData, or "throw"
quantizeToNearestColor(h, imageData, palette) ==
    IF Len(palette) = 0 /\ Length(h[imageData.data]) > 0
    THEN [heap |-> h, kind |-> "throw", value |-> imageData]
    ELSE [heap |-> [h EXCEPT ![imageData.data] =
                        QuantizeLoop(h[imageData.data], 0, palette)],
          kind |-> "return", value |-> imageData]

(***************************************************************************)
(* floydSteinbergDither (functions.ts 82-136).                             *)
(***************************************************************************)
\* variant: the working array is the source array itself, not a copy
NewUint8ClampedArray_Alias(h, source) == [heap |-> h, ref |-> source]

\* new Uint8ClampedArray(source): a fresh array holding a copy (line 83)
NewUint8ClampedArray(h, source) ==
    [heap |-> Append(h, h[source]), ref |-> Len(h) + 1]

\* variant: the whole error goes to the neighbour, whatever its weight
Diffused_Unweighted(old, err, weight) == ToUint8Clamp16(16 * old + err * 16)

\* variant: the sum rounded but not clamped
Diffused_Unclamped(old, err, weight) == (16 * old + err * weight + 8) \div 16

\* data[idx] = Math.max(0, Math.min(255, data[idx] + err * weight / 16))
Diffused(old, err, weight) == ToUint8Clamp16(16 * old + err * weight)

DiffuseTo(data, idx, errR, errG, errB, weight) ==
    [data EXCEPT ![idx] = Diffused(data[idx], errR, weight),
                 ![idx + 1] = Diffused(data[idx + 1], errG, weight),
                 ![idx + 2] = Diffused(data[idx + 2], errB, weight)]

\* variant: the 7/16 share goes to the left neighbour, already visited
Neighbours_Left(width, height, x, y) ==
    (IF x > 0
     THEN << [idx |-> (y * width + x - 1) * 4, weight |-> 7] >> ELSE <<>>)
    \o (IF y + 1 < height /\ x > 0
        THEN << [idx |-> ((y + 1) * width + x - 1) * 4, weight |-> 3] >> ELSE <<>>)
    \o (IF y + 1 < height
        THEN << [idx |-> ((y + 1) * width + x) * 4, weight |-> 5] >> ELSE <<>>)
    \o (IF y + 1 < height /\ x + 1 < width
        THEN << [idx |-> ((y + 1) * width + x + 1) * 4, weight |-> 1] >> ELSE <<>>)

\* variant: the right neighbour is the next pixel of the buffer, also when
\* the visited pixel is the last one of its row
Neighbours_Wrap(width, height, x, y) ==
    (IF y * width + x + 1 < width * height
     THEN << [idx |-> (y * width + x + 1) * 4, weight |-> 7] >> ELSE <<>>)
    \o (IF y + 1 < height /\ x > 0
        THEN << [idx |-> ((y + 1) * width + x - 1) * 4, weight |-> 3] >> ELSE <<>>)
    \o (IF y + 1 < height
        THEN << [idx |-> ((y + 1) * width + x) * 4, weight |-> 5] >> ELSE <<>>)
    \o (IF y + 1 < height /\ x + 1 < width
        THEN << [idx |-> ((y + 1) * width + x + 1) * 4, weight |-> 1] >> ELSE <<>>)

\* variant: the shares of the bottom-left and the bottom neighbour exchanged
Neighbours_Swapped(width, height, x, y) ==
    (IF x + 1 < width
     THEN << [idx |-> (y * width + x + 1) * 4, weight |-> 7] >> ELSE <<>>)
    \o (IF y + 1 < height /\ x > 0
        THEN << [idx |-> ((y + 1) * width + x - 1) * 4, weight |-> 5] >> ELSE <<>>)
    \o (IF y + 1 < height
        THEN << [idx |-> ((y + 1) * width + x) * 4, weight |-> 3] >> ELSE <<>>)
    \o (IF y + 1 < height /\ x + 1 < width
        THEN << [idx |-> ((y + 1) * width + x + 1) * 4, weight |-> 1] >> ELSE <<>>)

\* the four guarded neighbour indexes of lines 105-130, in the code's order
Neighbours(width, height, x, y) ==
    (IF x + 1 < width
     THEN << [idx |-> (y * width + x + 1) * 4, weight |-> 7] >> ELSE <<>>)
    \o (IF y + 1 < height /\ x > 0
        THEN << [idx |-> ((y + 1) * width + x - 1) * 4, weight |-> 3] >> ELSE <<>>)
    \o (IF y + 1 < height
        THEN << [idx |-> ((y + 1) * width + x) * 4, weight |-> 5] >> ELSE <<>>)
    \o (IF y + 1 < height /\ x + 1 < width
        THEN << [idx |-> ((y + 1) * width + x + 1) * 4, weight |-> 1] >> ELSE <<>>)

RECURSIVE DiffuseAll(_, _, _, _, _, _)
DiffuseAll(data, ns, k, errR, errG, errB) ==
    IF k > Len(ns) THEN data
    ELSE DiffuseAll(DiffuseTo(data, ns[k].idx, errR, errG, errB, ns[k].weight),
                    ns, k + 1, errR, errG, errB)

\* variant: the visited pixel is also made opaque
DitherPixel_Opaque(data, width, height, x, y, palette) ==
    LET idx == (y * width + x) * 4
        oldR == data[idx]
        oldG == data[idx + 1]
        oldB == data[idx + 2]
        new == findNearestPaletteColor(oldR, oldG, oldB, palette)
        written == [data EXCEPT ![idx] = ToUint8Clamp(new[1]),
                                ![idx + 1] = ToUint8Clamp(new[2]),
                                ![idx + 2] = ToUint8Clamp(new[3]),
                                ![idx + 3] = 255]
    IN DiffuseAll(written, Neighbours(width, height, x, y), 1,
                  oldR - new[1], oldG - new[2], oldB - new[3])

\* variant: the old values are diffused in place of the errors
DitherPixel_DiffuseOld(data, width, height, x, y, palette) ==
    LET idx == (y * width + x) * 4
        oldR == data[idx]
        oldG == data[idx + 1]
        oldB == data[idx + 2]
        new == findNearestPaletteColor(oldR, oldG, oldB, palette)
        written == [data EXCEPT ![idx] = ToUint8Clamp(new[1]),
                                ![idx + 1] = ToUint8Clamp(new[2]),
                                ![idx + 2] = ToUint8Clamp(new[3])]
    IN DiffuseAll(written, Neighbours(width, height, x, y), 1, oldR, oldG, oldB)

\* one iteration of the inner loop (lines 89-131)
DitherPixel(data, width, height, x, y, palette) ==
    LET idx == (y * width + x) * 4
        oldR == data[idx]
        oldG == data[idx + 1]
        oldB == data[idx + 2]
        new == findNearestPaletteColor(oldR, oldG, oldB, palette)
        written == [data EXCEPT ![idx] = ToUint8Clamp(new[1]),
                                ![idx + 1] = ToUint8Clamp(new[2]),
                                ![idx + 2] = ToUint8Clamp(new[3])]
    IN DiffuseAll(written, Neighbours(width, height, x, y), 1,
                  oldR - new[1], oldG - new[2], oldB - new[3])

\* the two loops from pixel number k (= y * width + x) on; an ImageData has
\* width * height pixels (length = width * height * 4)
RECURSIVE DitherLoop(_, _, _, _, _)
DitherLoop(data, width, height, k, palette) ==
    IF k < width * height /\ k < Pixels(data)
    THEN DitherLoop(DitherPixel(data, width, height, k % width, k \div width, palette),
                    width, height, k + 1, palette)
    ELSE data

\* [heap, kind, value]: the result is a new ImageData over the working array
floydSteinbergDither(h, imageData, palette) ==
    LET copy == NewUint8ClampedArray(h, imageData.data)
        width == imageData.width
        height == imageData.height
    IN IF Len(palette) = 0 /\ width * height > 0
       THEN [heap |-> copy.heap, kind |-> "throw", value |-> imageData]
       ELSE [heap |-> [copy.heap EXCEPT ![copy.ref] =
                          DitherLoop(copy.heap[copy.ref], width, height, 0, palette)],
             kind |-> "return",
             value |-> [data |-> copy.ref, width |-> width, height |-> height]]

(***************************************************************************)
(* The palette module (lib/palette) is not among the sources: the default  *)
(* colours are the black / white / red set of the specification, and one   *)
(* selectable colour stands for the additional ones.  A hex string         *)
(* "#rrggbb" is the sequence of its six digits.                            *)
(***************************************************************************)
DEFAULT_COLORS ==
    << [name |-> "Black", hex |-> <<0, 0, 0, 0, 0, 0>>],
       [name |-> "White", hex |-> <<15, 15, 15, 15, 15, 15>>],
       [name |-> "Red", hex |-> <<15, 15, 0, 0, 0, 0>>] >>

SELECTABLE_COLORS == << [name |-> "Gray", hex |-> <<8, 0, 8, 0, 8, 0>>] >>

\* parseInt(hex.slice(a, a + 2), 16) for the three channels (App.tsx 453-458)
HexToRGB(hex) ==
    <<16 * hex[1] + hex[2], 16 * hex[3] + hex[4], 16 * hex[5] + hex[6]>>

RECURSIVE PushSelected(_, _, _)
PushSelected(finalPalette, selected, k) ==
    IF k > Len(SELECTABLE_COLORS) THEN finalPalette
    ELSE PushSelected(IF selected[SELECTABLE_COLORS[k].name]
                      THEN Append(finalPalette, SELECTABLE_COLORS[k])
                      ELSE finalPalette,
                      selected, k + 1)

\* App.tsx 445-458
FinalPaletteRGB(selected) ==
    LET finalPalette == PushSelected(DEFAULT_COLORS, selected, 1)
    IN [k \in 1..Len(finalPalette) |-> HexToRGB(finalPalette[k].hex)]

(***************************************************************************)
(* The App component before any user action (App.tsx 402-417).             *)
(* lib/palette is not part of the sources at hand; see DEFAULT_COLORS.     *)
(***************************************************************************)
NoImage == 0
NotReturned == [kind |-> "none"]

SelectableNames == { SELECTABLE_COLORS[k].name : k \in 1..Len(SELECTABLE_COLORS) }
SliderMin == 2

AppInit ==
    /\ blockSize = 4
    /\ ditherChecked = FALSE
    /\ noPixelateChecked = FALSE
    /\ selectedColors = [n \in SelectableNames |-> TRUE]
    /\ currentImage = NoImage
    /\ processing = FALSE
    /\ processedCanvas = NullRef
    /\ showPreview = FALSE
    /\ currentBlockSize = 0

RunInit ==
    /\ timer = <<>>
    /\ pc = "idle"
    /\ frame = <<>>
    /\ calls = <<>>
    /\ runs = 0

(***************************************************************************)
(* The canvas.  A canvas object is a heap record [width, height, bitmap];  *)
(* its bitmap is a byte buffer in RGBA order, taken as not premultiplied.  *)
(* drawImage is the platform's: it is modelled by the sampling it performs *)
(* and, where the HTML standard leaves the sampled pixel open (a sample    *)
(* point on the border of two source pixels), by every outcome.            *)
(***************************************************************************)
Transparent == <<0, 0, 0, 0>>

\* canvas.width = w; canvas.height = h: a cleared bitmap
BlankBitmap(w, h) == [i \in 0..(4 * w * h - 1) |-> 0]

\* pixel (x, y) of a w * h bitmap, transparent outside it
BitmapPixel(data, w, h, x, y) ==
    IF x >= 0 /\ x < w /\ y >= 0 /\ y < h THEN PixelAt(data, y * w + x) ELSE Transparent

\* the bitmap whose pixel (x, y) is P(x, y)
BitmapOf(w, h, P(_, _)) ==
    [i \in 0..(4 * w * h - 1) |-> P((i \div 4) % w, (i \div 4) \div w)[(i % 4) + 1]]

\* equal mix of two pixels, as filtering does it (on premultiplied colour)
Blend(p, q) ==
    LET a == p[4] + q[4]
    IN IF a = 0 THEN Transparent
       ELSE <<MathRound(p[1] * p[4] + q[1] * q[4], a),
              MathRound(p[2] * p[4] + q[2] * q[4], a),
              MathRound(p[3] * p[4] + q[3] * q[4], a),
              MathRound(a, 2)>>

\* The 1:1 blit of App.tsx 478 samples the source at x + offsetX.  x2 and y2
\* are twice those coordinates: an odd one lies between two source pixels, and
\* the platform takes the lower one, the upper one or their mix.
SamplingModes == {"floor", "ceil", "blend"}

Between(lower, upper, mode) ==
    IF mode = "floor" THEN lower ELSE IF mode = "ceil" THEN upper ELSE Blend(lower, upper)

SampleRow(img, x2, y, mode) ==
    IF x2 % 2 = 0
    THEN BitmapPixel(img.data, img.naturalWidth, img.naturalHeight, x2 \div 2, y)
    ELSE Between(BitmapPixel(img.data, img.naturalWidth, img.naturalHeight, (x2 - 1) \div 2, y),
                 BitmapPixel(img.data, img.naturalWidth, img.naturalHeight, (x2 + 1) \div 2, y),
                 mode)

Sample(img, x2, y2, mode) ==
    IF y2 % 2 = 0
    THEN SampleRow(img, x2, y2 \div 2, mode)
    ELSE Between(SampleRow(img, x2, (y2 - 1) \div 2, mode),
                 SampleRow(img, x2, (y2 + 1) \div 2, mode), mode)

\* ctx.drawImage(image, offsetX, offsetY, w, h, 0, 0, w, h) on a cleared
\* w * h canvas; the offsets are given doubled
DrawCropped(img, offsetX2, offsetY2, w, h, mode) ==
    LET P(x, y) == Sample(img, 2 * x + offsetX2, 2 * y + offsetY2, mode)
    IN BitmapOf(w, h, P)

(***************************************************************************)
(* pixelateImage (functions.ts 14-41): draw the canvas into a small canvas *)
(* and the small canvas back, both without smoothing, that is by nearest   *)
(* neighbour.  Destination pixel i of n samples the source of length len   *)
(* at (i + 1/2) * len / n; when that is a whole number it is the border of *)
(* two source pixels and tie (0 or 1) says which one the platform takes.   *)
(***************************************************************************)
\* variant: destination pixel i takes source pixel i, no scaling
NearestSource_Unscaled(i, n, len, tie) == Min(i, len - 1)

NearestSource(i, n, len, tie) ==
    LET num == (2 * i + 1) * len
        den == 2 * n
    IN IF num % den = 0 THEN (num \div den) - tie ELSE num \div den

\* drawImage(source, 0, 0, dw, dh) without smoothing
DrawScaled(data, w, h, dw, dh, tie) ==
    LET P(x, y) == BitmapPixel(data, w, h, NearestSource(x, dw, w, tie),
                               NearestSource(y, dh, h, tie))
    IN BitmapOf(dw, dh, P)

\* variant: without the minimum of one sample
SmallSize_Floor(original, bs) == original \div bs

\* lines 22-23
SmallSize(original, bs) == Max(1, original \div bs)

\* the bitmap of the canvas after pixelateImage(canvas, bs)
pixelateImage(canvas, bs, tie) ==
    IF bs <= 1 THEN canvas.bitmap
    ELSE LET originalWidth == canvas.width
             originalHeight == canvas.height
             smallWidth == SmallSize(originalWidth, bs)
             smallHeight == SmallSize(originalHeight, bs)
             small == DrawScaled(canvas.bitmap, originalWidth, originalHeight,
                                 smallWidth, smallHeight, tie)
         IN DrawScaled(small, smallWidth, smallHeight, originalWidth, originalHeight, tie)

\* whether a sample point of a scaling from len to n pixels is a pixel border
ScalingHasTie(n, len) == \E i \in 0..(n - 1) : ((2 * i + 1) * len) % (2 * n) = 0

\* whether a sample point of pixelateImage(canvas, bs) falls on a pixel border,
\* on the way down or on the way up
HasTie(canvas, bs) ==
    bs > 1 /\ \E len \in {canvas.width, canvas.height} :
                 \/ ScalingHasTie(SmallSize(len, bs), len)
                 \/ ScalingHasTie(len, SmallSize(len, bs))

(***************************************************************************)
(* Inputs of the library functions when they are called on their own.      *)
(***************************************************************************)
Black == <<0, 0, 0>>
White == <<255, 255, 255>>
Red == <<255, 0, 0>>
Gray10 == <<10, 10, 10>>

PaletteColors == {Black, Gray10, White, Red}
\* palettes of 0..MaxPalette entries (the empty one is the rejected input)
Palettes == UNION {[1..n -> PaletteColors] : n \in 0..MaxPalette}

QueryLevels == {0, 5, 128, 255}

\* byte buffers of n pixels, each pixel <<r, g, b, a>> taken from the set px
BuffersOf(n, px) ==
    { [i \in 0..(4 * n - 1) |-> p[(i \div 4) + 1][(i % 4) + 1]] : p \in [1..n -> px] }


(***************************************************************************)
(* SpecAdjust: adjustImageSize called with every size and block size.      *)
(***************************************************************************)
InitAdjust ==
    /\ AppInit /\ RunInit
    /\ heap = <<>>
    /\ args \in [originalWidth : 1..MaxDim, originalHeight : 1..MaxDim,
                 blockSize : 1..MaxBlock]
    /\ loc = <<>>
    /\ ret = NotReturned

CallAdjust ==
    /\ ret = NotReturned
    /\ ret' = [kind |-> "return",
               value |-> adjustImageSize(args.originalWidth, args.originalHeight,
                                         args.blockSize)]
    /\ UNCHANGED <<appVars, runVars, heap, args, loc>>

SpecAdjust == InitAdjust /\ [][CallAdjust]_vars

(***************************************************************************)
(* SpecNearest: findNearestPaletteColor called with every query colour     *)
(* and palette.                                                            *)
(***************************************************************************)
InitNearest ==
    /\ AppInit /\ RunInit
    /\ heap = <<>>
    /\ args \in [r : QueryLevels, g : QueryLevels, b : QueryLevels, palette : Palettes]
    /\ loc = <<>>
    /\ ret = NotReturned

CallNearest ==
    /\ ret = NotReturned
    /\ ret' = [kind |-> "return",
               value |-> findNearestPaletteColor(args.r, args.g, args.b, args.palette),
               entry |-> findNearestPaletteIndex(args.r, args.g, args.b, args.palette)]
    /\ UNCHANGED <<appVars, runVars, heap, args, loc>>

SpecNearest == InitNearest /\ [][CallNearest]_vars

(***************************************************************************)
(* SpecFlatten: flattenAlpha applied, up to MaxCalls times in a row, to a  *)
(* buffer.  loc records the bytes of the buffer before the first call and  *)
(* after each call.  One-pixel buffers take every alpha 0..255.            *)
(***************************************************************************)
FlattenWidePixels == { <<c, 255 - c, 19, a>> : c \in {0, 100, 255}, a \in 0..255 }
FlattenPixels ==
    { <<c, 255 - c, 19, a>> : c \in {0, 100, 255}, a \in {0, 1, 127, 128, 254, 255} }
FlattenInputs ==
    BuffersOf(1, FlattenWidePixels)
        \cup UNION { BuffersOf(n, FlattenPixels) : n \in 2..MaxFlattenPixels }

InitFlatten ==
    /\ AppInit /\ RunInit
    /\ \E buf \in FlattenInputs :
          /\ heap = <<buf>>
          /\ args = [imageData |-> [data |-> 1, width |-> Pixels(buf), height |-> 1]]
          /\ loc = <<buf>>
    /\ ret = NotReturned

CallFlatten ==
    /\ Len(loc) <= MaxCalls
    /\ heap' = flattenAlpha(heap, args.imageData)
    /\ loc' = Append(loc, heap'[args.imageData.data])
    /\ ret' = [kind |-> "return", value |-> Undefined]
    /\ UNCHANGED <<appVars, runVars, args>>

SpecFlatten == InitFlatten /\ [][CallFlatten]_vars

(***************************************************************************)
(* SpecQuantize: quantizeToNearestColor called on a buffer and a palette.  *)
(* loc records the bytes of the buffer before the call.                    *)
(***************************************************************************)
QuantizePixels ==
    { <<c[1], c[2], c[3], a>> : c \in {<<5, 5, 5>>, <<128, 128, 128>>, <<250, 10, 10>>},
                                a \in {0, 77, 255} }
QuantizeInputs == UNION { BuffersOf(n, QuantizePixels) : n \in 1..MaxQuantizePixels }

InitQuantize ==
    /\ AppInit /\ RunInit
    /\ \E buf \in QuantizeInputs, palette \in Palettes :
          /\ heap = <<buf>>
          /\ args = [imageData |-> [data |-> 1, width |-> Pixels(buf), height |-> 1],
                     palette |-> palette]
          /\ loc = <<buf>>
    /\ ret = NotReturned

CallQuantize ==
    /\ ret = NotReturned
    /\ LET out == quantizeToNearestColor(heap, args.imageData, args.palette)
       IN /\ heap' = out.heap
          /\ ret' = [kind |-> out.kind, value |-> out.value]
    /\ UNCHANGED <<appVars, runVars, args, loc>>

SpecQuantize == InitQuantize /\ [][CallQuantize]_vars

(***************************************************************************)
(* SpecDither: floydSteinbergDither called on an image and a palette and   *)
(* executed one pixel visit at a time.  The palette array is an object of  *)
(* the heap as well; args records the bytes of the image and the entries   *)
(* of the palette as they are at the call.                                 *)
(***************************************************************************)
DitherPixels == { <<128, 128, 128, 255>>, <<200, 30, 90, 40>>, <<0, 0, 0, 0>> }
DitherSizes ==
    { s \in (1..MaxDitherPixels) \X (1..MaxDitherPixels) : s[1] * s[2] <= MaxDitherPixels }
DitherPalettes == { <<>>, <<Black, White>>, <<White, Red, Black>>, <<Gray10, Red>> }

InitDither ==
    /\ AppInit /\ RunInit
    /\ \E s \in DitherSizes, palette \in DitherPalettes :
          \E buf \in BuffersOf(s[1] * s[2], DitherPixels) :
              /\ heap = <<buf, palette>>
              /\ args = [imageData |-> [data |-> 1, width |-> s[1], height |-> s[2]],
                         palette |-> 2, bytes |-> buf, entries |-> palette]
    /\ loc = [pc |-> "entry"]
    /\ ret = NotReturned

\* lines 83-85
DitherEnter ==
    /\ loc.pc = "entry"
    /\ LET copy == NewUint8ClampedArray(heap, args.imageData.data)
       IN /\ heap' = copy.heap
          /\ loc' = [pc |-> "loop", data |-> copy.ref,
                     width |-> args.imageData.width, height |-> args.imageData.height,
                     x |-> 0, y |-> 0]
    /\ UNCHANGED <<appVars, runVars, args, ret>>

\* the loop headers of lines 87-88: the position after the visit of (x, y)
NextPosition(width, x, y) ==
    IF x + 1 < width THEN [x |-> x + 1, y |-> y] ELSE [x |-> 0, y |-> y + 1]

\* one iteration of the inner loop, lines 89-131
DitherStep ==
    /\ loc.pc = "loop"
    /\ loc.y < loc.height
    /\ Len(heap[args.palette]) > 0
    /\ heap' = [heap EXCEPT ![loc.data] =
                   DitherPixel(heap[loc.data], loc.width, loc.height, loc.x, loc.y,
                               heap[args.palette])]
    /\ loc' = [loc EXCEPT !.x = NextPosition(loc.width, loc.x, loc.y).x,
                          !.y = NextPosition(loc.width, loc.x, loc.y).y]
    /\ UNCHANGED <<appVars, runVars, args, ret>>

\* line 94 on an empty palette: destructuring undefined throws
DitherThrow ==
    /\ loc.pc = "loop"
    /\ loc.y < loc.height
    /\ Len(heap[args.palette]) = 0
    /\ loc' = [loc EXCEPT !.pc = "thrown"]
    /\ ret' = [kind |-> "throw", value |-> args.imageData]
    /\ UNCHANGED <<appVars, runVars, heap, args>>

\* line 135
DitherReturn ==
    /\ loc.pc = "loop"
    /\ loc.y >= loc.height
    /\ loc' = [loc EXCEPT !.pc = "done"]
    /\ ret' = [kind |-> "return",
               value |-> [data |-> loc.data, width |-> loc.width, height |-> loc.height]]
    /\ UNCHANGED <<appVars, runVars, heap, args>>

NextDither == DitherEnter \/ DitherStep \/ DitherThrow \/ DitherReturn

SpecDither == InitDither /\ [][NextDither]_vars

\* the stepwise execution computes what the function computes as a whole
DitherStepsAgree ==
    ret.kind = "return" =>
        LET out == floydSteinbergDither(<<args.bytes>>, args.imageData, args.entries)
        IN /\ out.kind = "return"
           /\ out.heap[out.value.data] = heap[ret.value.data]

(***************************************************************************)
(* SpecPixelate: pixelateImage called on a canvas of every size up to      *)
(* MaxCanvasDim with every block size up to MaxPixelateBlock.  No two      *)
(* pixels of a canvas have the same colour, so the pixel a sample came     *)
(* from is known.  args records the bitmap as it is at the call;           *)
(* ret.canvas says whether the canvas was returned (line 40) or undefined  *)
(* (lines 15 and 29).                                                      *)
(***************************************************************************)
PixelateSource(w, h, seed) ==
    LET P(x, y) == <<10 + 30 * x + seed, 20 + 40 * y, 5 + 7 * (x + 2 * y),
                     IF (x + y + seed) % 3 = 2 THEN 128 ELSE 255>>
    IN BitmapOf(w, h, P)

InitPixelate ==
    /\ AppInit /\ RunInit
    /\ \E w \in 1..MaxCanvasDim, h \in 1..MaxCanvasDim, seed \in {0, 1},
          bs \in 0..MaxPixelateBlock :
          /\ heap = << [width |-> w, height |-> h, bitmap |-> PixelateSource(w, h, seed)] >>
          /\ args = [canvas |-> 1, blockSize |-> bs, width |-> w, height |-> h,
                     bitmap |-> PixelateSource(w, h, seed)]
    /\ loc = <<>>
    /\ ret = NotReturned

\* line 15
PixelateReturnsEarly ==
    /\ ret = NotReturned
    /\ args.blockSize <= 1
    /\ ret' = [kind |-> "return", canvas |-> FALSE]
    /\ UNCHANGED <<appVars, runVars, heap, args, loc>>

\* line 29: a context is missing
PixelateWithoutContext ==
    /\ ret = NotReturned
    /\ args.blockSize > 1
    /\ ret' = [kind |-> "return", canvas |-> FALSE]
    /\ UNCHANGED <<appVars, runVars, heap, args, loc>>

\* lines 17-40
PixelateDraws ==
    /\ ret = NotReturned
    /\ args.blockSize > 1
    /\ \E tie \in (IF HasTie(heap[args.canvas], args.blockSize) THEN {0, 1} ELSE {0}) :
          heap' = [heap EXCEPT ![args.canvas].bitmap =
                      pixelateImage(heap[args.canvas], args.blockSize, tie)]
    /\ ret' = [kind |-> "return", canvas |-> TRUE]
    /\ UNCHANGED <<appVars, runVars, args, loc>>

NextPixelate == PixelateReturnsEarly \/ PixelateWithoutContext \/ PixelateDraws

SpecPixelate == InitPixelate /\ [][NextPixelate]_vars

(***************************************************************************)
(* Spec: the App component.  The images a user can load are a small        *)
(* catalogue of decoded images with opaque, translucent and transparent    *)
(* pixels.  JavaScript runs each handler to completion: the user's actions *)
(* are taken only while no callback is executing (pc = "idle").  The       *)
(* deferred callback of processImage is cut into its statements, which run *)
(* one after the other with nothing in between.                            *)
(***************************************************************************)
SourcePixels ==
    << <<255, 0, 0, 255>>, <<10, 10, 10, 255>>, <<40, 200, 90, 128>>, <<90, 90, 90, 0>> >>

MakeImage(w, h, seed) ==
    LET P(x, y) == SourcePixels[((x + 2 * y + seed) % Len(SourcePixels)) + 1]
    IN [naturalWidth |-> w, naturalHeight |-> h, data |-> BitmapOf(w, h, P)]

\* an image whose pixels all are the given one
SolidImage(w, h, pixel) ==
    LET P(x, y) == pixel
    IN [naturalWidth |-> w, naturalHeight |-> h, data |-> BitmapOf(w, h, P)]

Images ==
    << MakeImage(2, 2, 0), MakeImage(3, 2, 1), MakeImage(4, 4, 2),
       SolidImage(8, 8, <<255, 0, 0, 255>>) >>

UIReady == pc = "idle"

\* the range input, App.tsx 535-541
SetBlockSize ==
    /\ UIReady
    /\ \E v \in SliderMin..MaxSlider : v # blockSize /\ blockSize' = v
    /\ UNCHANGED <<ditherChecked, noPixelateChecked, selectedColors, currentImage,
                   processing, processedCanvas, showPreview, currentBlockSize,
                   runVars, heap, libVars>>

\* App.tsx 545-550
SetDitherChecked ==
    /\ UIReady
    /\ ditherChecked' = ~ditherChecked
    /\ UNCHANGED <<blockSize, noPixelateChecked, selectedColors, currentImage,
                   processing, processedCanvas, showPreview, currentBlockSize,
                   runVars, heap, libVars>>

\* App.tsx 554-559
SetNoPixelateChecked ==
    /\ UIReady
    /\ noPixelateChecked' = ~noPixelateChecked
    /\ UNCHANGED <<blockSize, ditherChecked, selectedColors, currentImage,
                   processing, processedCanvas, showPreview, currentBlockSize,
                   runVars, heap, libVars>>

\* App.tsx 346-351
HandleColorSelectionChange ==
    /\ UIReady
    /\ \E colorName \in SelectableNames :
          selectedColors' = [selectedColors EXCEPT ![colorName] = ~selectedColors[colorName]]
    /\ UNCHANGED <<blockSize, ditherChecked, noPixelateChecked, currentImage,
                   processing, processedCanvas, showPreview, currentBlockSize,
                   runVars, heap, libVars>>

\* App.tsx 353-371: select all / deselect all
SelectAllColor ==
    /\ UIReady
    /\ selectedColors' = [n \in DOMAIN selectedColors |-> TRUE]
    /\ UNCHANGED <<blockSize, ditherChecked, noPixelateChecked, currentImage,
                   processing, processedCanvas, showPreview, currentBlockSize,
                   runVars, heap, libVars>>

DeselectAllColors ==
    /\ UIReady
    /\ selectedColors' = [n \in DOMAIN selectedColors |-> FALSE]
    /\ UNCHANGED <<blockSize, ditherChecked, noPixelateChecked, currentImage,
                   processing, processedCanvas, showPreview, currentBlockSize,
                   runVars, heap, libVars>>

\* handleFileSelect, App.tsx 420-435: an image file is read and decoded
HandleFileSelect ==
    /\ UIReady
    /\ \E img \in 1..Len(Images) : img # currentImage /\ currentImage' = img
    /\ UNCHANGED <<blockSize, ditherChecked, noPixelateChecked, selectedColors,
                   processing, processedCanvas, showPreview, currentBlockSize,
                   runVars, heap, libVars>>

\* A click on the process button (App.tsx 570-574, 438-443).  The deferred
\* callback closes over the state of the render the click happened in.
ProcessImage ==
    /\ UIReady
    /\ currentImage # NoImage /\ ~processing
    /\ runs < MaxRuns
    /\ processing' = TRUE
    /\ timer' = << [currentImage |-> currentImage, ditherChecked |-> ditherChecked,
                    noPixelateChecked |-> noPixelateChecked, blockSize |-> blockSize,
                    selectedColors |-> selectedColors] >>
    /\ runs' = runs + 1
    /\ UNCHANGED <<blockSize, ditherChecked, noPixelateChecked, selectedColors,
                   currentImage, processedCanvas, showPreview, currentBlockSize,
                   pc, frame, calls, heap, libVars>>

NoImageData == [data |-> NullRef, width |-> 0, height |-> 0]

(***************************************************************************)
(* The deferred callback of processImage (App.tsx 443-506).  What the      *)
(* callback works on is gathered in a record m: its position pc, its       *)
(* locals frame (with closure, the state it closed over), the heap, the    *)
(* ref currentBlockSize and calls, the library and canvas calls made so    *)
(* far.  Each statement is a function from m to the set of its outcomes.   *)
(***************************************************************************)
Machine == [pc |-> pc, frame |-> frame, heap |-> heap, calls |-> calls,
            currentBlockSize |-> currentBlockSize]

\* the timer fires; App.tsx 445-458 build the palette
StartCallback(closure, h, cbs) ==
    [pc |-> "canvas",
     frame |-> [closure |-> closure,
                finalPaletteRGB |-> FinalPaletteRGB(closure.selectedColors),
                canvas |-> NullRef,
                adjustedSize |-> [width |-> 0, height |-> 0],
                offsetX2 |-> 0, offsetY2 |-> 0,
                imageData |-> NoImageData,
                processedImageData |-> NoImageData],
     heap |-> h, calls |-> <<>>, currentBlockSize |-> cbs]

\* App.tsx 460-462: a canvas and its context; a canvas has no pixels of the
\* image until it is sized.  getContext may give null: the callback returns.
CreateCanvasStep(m) ==
    { [m EXCEPT !.heap = Append(m.heap, [width |-> 0, height |-> 0,
                                         bitmap |-> BlankBitmap(0, 0)]),
                !.frame.canvas = Len(m.heap) + 1,
                !.pc = "adjust"],
      [m EXCEPT !.pc = "idle"] }

\* variant: the flags are not consulted
EffectiveBlockSize_Slider(dither, noPixelate, slider) == slider

\* App.tsx 464
EffectiveBlockSize(dither, noPixelate, slider) ==
    IF dither \/ noPixelate THEN 1 ELSE slider

\* variant: the canvas takes the size of the source image
AdjustSizeStep_Natural(m) ==
    LET c == m.frame.closure
        bs == EffectiveBlockSize(c.ditherChecked, c.noPixelateChecked, c.blockSize)
        img == Images[c.currentImage]
        adjustedSize == [width |-> img.naturalWidth, height |-> img.naturalHeight]
    IN { [m EXCEPT !.currentBlockSize = bs,
                   !.frame.adjustedSize = adjustedSize,
                   !.heap[m.frame.canvas] =
                       [width |-> adjustedSize.width, height |-> adjustedSize.height,
                        bitmap |-> BlankBitmap(adjustedSize.width, adjustedSize.height)],
                   !.calls = Append(m.calls, "adjustImageSize"),
                   !.pc = "crop"] }

\* App.tsx 464-472
AdjustSizeStep(m) ==
    LET c == m.frame.closure
        bs == EffectiveBlockSize(c.ditherChecked, c.noPixelateChecked, c.blockSize)
        img == Images[c.currentImage]
        adjustedSize == adjustImageSize(img.naturalWidth, img.naturalHeight, bs)
    IN { [m EXCEPT !.currentBlockSize = bs,
                   !.frame.adjustedSize = adjustedSize,
                   !.heap[m.frame.canvas] =
                       [width |-> adjustedSize.width, height |-> adjustedSize.height,
                        bitmap |-> BlankBitmap(adjustedSize.width, adjustedSize.height)],
                   !.calls = Append(m.calls, "adjustImageSize"),
                   !.pc = "crop"] }

\* App.tsx 474-478; offsetX = (originalWidth - adjustedSize.width) / 2, kept doubled
CropCenteredStep(m) ==
    LET img == Images[m.frame.closure.currentImage]
        offsetX2 == img.naturalWidth - m.frame.adjustedSize.width
        offsetY2 == img.naturalHeight - m.frame.adjustedSize.height
        modes == IF offsetX2 % 2 = 0 /\ offsetY2 % 2 = 0 THEN {"floor"} ELSE SamplingModes
    IN { [m EXCEPT !.frame.offsetX2 = offsetX2,
                   !.frame.offsetY2 = offsetY2,
                   !.heap[m.frame.canvas].bitmap =
                       DrawCropped(img, offsetX2, offsetY2, m.frame.adjustedSize.width,
                                   m.frame.adjustedSize.height, mode),
                   !.calls = Append(m.calls, "drawImage"),
                   !.pc = "pixelate"] : mode \in modes }

\* variant: the canvas is pixelated with the slider value whatever the flags
PixelateStep_Slider(m) ==
    LET canvas == m.heap[m.frame.canvas]
    IN { [m EXCEPT !.heap[m.frame.canvas].bitmap =
                       pixelateImage(canvas, m.frame.closure.blockSize, tie),
                   !.calls = Append(m.calls, "pixelateImage"),
                   !.pc = "getImageData"] : tie \in {0, 1} }

\* App.tsx 480-483.  With the skip flag pixelateImage is not called.  Inside
\* pixelateImage (functions.ts 29) the small canvas may have no context: it
\* returns without drawing.
PixelateStep(m) ==
    IF m.frame.closure.noPixelateChecked
    THEN { [m EXCEPT !.pc = "getImageData"] }
    ELSE LET canvas == m.heap[m.frame.canvas]
             bs == m.currentBlockSize
             ties == IF HasTie(canvas, bs) THEN {0, 1} ELSE {0}
         IN { [m EXCEPT !.heap[m.frame.canvas].bitmap = pixelateImage(canvas, bs, tie),
                        !.calls = Append(m.calls, "pixelateImage"),
                        !.pc = "getImageData"] : tie \in ties }
            \cup
            (IF bs > 1
             THEN { [m EXCEPT !.calls = Append(m.calls, "pixelateImage"),
                              !.pc = "getImageData"] }
             ELSE {})

\* App.tsx 486: getImageData copies the bitmap into a new ImageData
GetImageDataStep(m) ==
    LET canvas == m.heap[m.frame.canvas]
    IN { [m EXCEPT !.heap = Append(m.heap, canvas.bitmap),
                   !.frame.imageData = [data |-> Len(m.heap) + 1, width |-> canvas.width,
                                        height |-> canvas.height],
                   !.calls = Append(m.calls, "getImageData"),
                   !.pc = "flatten"] }

\* variant: the image data goes to the reducer as getImageData gave it
FlattenAlphaStep_Skipped(m) ==
    { [m EXCEPT !.calls = Append(m.calls, "flattenAlpha"),
                !.pc = "reduce"] }

\* App.tsx 488
FlattenAlphaStep(m) ==
    { [m EXCEPT !.heap = flattenAlpha(m.heap, m.frame.imageData),
                !.calls = Append(m.calls, "flattenAlpha"),
                !.pc = "reduce"] }

\* what a call of a reducer leaves: an exception ends the callback
AfterReducer(m, name, out) ==
    { [m EXCEPT !.heap = out.heap,
                !.frame.processedImageData = out.value,
                !.calls = Append(m.calls, name),
                !.pc = IF out.kind = "return" THEN "put" ELSE "idle"] }

\* variant: the dithering flag is not consulted
ReduceColorsStep_Quantize(m) ==
    AfterReducer(m, "quantizeToNearestColor",
                 quantizeToNearestColor(m.heap, m.frame.imageData, m.frame.finalPaletteRGB))

\* variant: the image is dithered and then quantized as well
ReduceColorsStep_Both(m) ==
    LET d == floydSteinbergDither(m.heap, m.frame.imageData, m.frame.finalPaletteRGB)
    IN AfterReducer([m EXCEPT !.calls = Append(m.calls, "floydSteinbergDither")],
                    "quantizeToNearestColor",
                    quantizeToNearestColor(d.heap, d.value, m.frame.finalPaletteRGB))

\* variant: the reducer is handed the default colours without the first ones
ReduceColorsStep_ShortPalette(m) ==
    AfterReducer(m, "quantizeToNearestColor",
                 quantizeToNearestColor(m.heap, m.frame.imageData,
                                        SubSeq(m.frame.finalPaletteRGB, 1, 2)))

\* App.tsx 490-496
ReduceColorsStep(m) ==
    IF m.frame.closure.ditherChecked
    THEN AfterReducer(m, "floydSteinbergDither",
                      floydSteinbergDither(m.heap, m.frame.imageData,
                                           m.frame.finalPaletteRGB))
    ELSE AfterReducer(m, "quantizeToNearestColor",
                      quantizeToNearestColor(m.heap, m.frame.imageData,
                                             m.frame.finalPaletteRGB))

\* App.tsx 498
PutImageDataStep(m) ==
    { [m EXCEPT !.heap[m.frame.canvas].bitmap = m.heap[m.frame.processedImageData.data],
                !.calls = Append(m.calls, "putImageData"),
                !.pc = "publish"] }

\* the outcomes of the statement at m.pc
Successors(m) ==
    CASE m.pc = "canvas" -> CreateCanvasStep(m)
      [] m.pc = "adjust" -> AdjustSizeStep(m)
      [] m.pc = "crop" -> CropCenteredStep(m)
      [] m.pc = "pixelate" -> PixelateStep(m)
      [] m.pc = "getImageData" -> GetImageDataStep(m)
      [] m.pc = "flatten" -> FlattenAlphaStep(m)
      [] m.pc = "reduce" -> ReduceColorsStep(m)
      [] m.pc = "put" -> PutImageDataStep(m)

\* the states in which the callback can reach its last statement or return
RECURSIVE Finals(_)
Finals(m) ==
    IF m.pc \in {"publish", "idle"} THEN {m}
    ELSE UNION { Finals(n) : n \in Successors(m) }

Install(m) ==
    /\ pc' = m.pc
    /\ frame' = IF m.pc = "idle" THEN <<>> ELSE m.frame
    /\ heap' = m.heap
    /\ calls' = m.calls
    /\ currentBlockSize' = m.currentBlockSize

callbackVars == <<pc, frame, heap, calls, currentBlockSize>>
uiVars == <<blockSize, ditherChecked, noPixelateChecked, selectedColors, currentImage,
            processing, processedCanvas, showPreview>>

\* App.tsx 501-505 on the state m the callback reached.  When the callback is
\* over its ImageData objects and the canvas published before are unreachable:
\* the heap keeps the new canvas alone.
Published(m) ==
    /\ heap' = << m.heap[m.frame.canvas] >>
    /\ processedCanvas' = 1
    /\ showPreview' = TRUE
    /\ processing' = FALSE
    /\ pc' = "idle"
    /\ frame' = <<>>
    /\ calls' = <<>>
    /\ currentBlockSize' = m.currentBlockSize

\* The deferred callback as the event loop runs it: from the timer to its end.
Callback ==
    /\ pc = "idle"
    /\ Len(timer) > 0
    /\ timer' = <<>>
    /\ \E m \in Finals(StartCallback(timer[1], heap, currentBlockSize)) :
          IF m.pc = "publish"
          THEN Published(m)
          ELSE /\ Install([m EXCEPT !.heap = heap, !.calls = <<>>])
               /\ UNCHANGED <<processing, processedCanvas, showPreview>>
    /\ UNCHANGED <<blockSize, ditherChecked, noPixelateChecked, selectedColors,
                   currentImage, runs, libVars>>

Init ==
    /\ AppInit /\ RunInit
    /\ heap = <<>>
    /\ args = <<>>
    /\ loc = <<>>
    /\ ret = NotReturned

Next ==
    \/ SetBlockSize \/ SetDitherChecked \/ SetNoPixelateChecked
    \/ HandleColorSelectionChange \/ SelectAllColor \/ DeselectAllColors
    \/ HandleFileSelect \/ ProcessImage \/ Callback

Spec == Init /\ [][Next]_vars

(***************************************************************************)
(* SpecPipeline: one request, from the click on, with the callback         *)
(* executed statement by statement.  The request is any image of the       *)
(* catalogue with any setting of the controls.                             *)
(***************************************************************************)
SliderValues == {4} \cup (SliderMin..MaxSlider)

InitPipeline ==
    /\ blockSize \in SliderValues
    /\ ditherChecked \in BOOLEAN
    /\ noPixelateChecked \in BOOLEAN
    /\ selectedColors \in [SelectableNames -> BOOLEAN]
    /\ currentImage \in 1..Len(Images)
    /\ processing = TRUE
    /\ processedCanvas = NullRef
    /\ showPreview = FALSE
    /\ currentBlockSize = 0
    /\ timer = << [currentImage |-> currentImage, ditherChecked |-> ditherChecked,
                   noPixelateChecked |-> noPixelateChecked, blockSize |-> blockSize,
                   selectedColors |-> selectedColors] >>
    /\ pc = "idle"
    /\ frame = <<>>
    /\ calls = <<>>
    /\ runs = 1
    /\ heap = <<>>
    /\ args = <<>>
    /\ loc = <<>>
    /\ ret = NotReturned

TimerFires ==
    /\ pc = "idle"
    /\ Len(timer) > 0
    /\ timer' = <<>>
    /\ Install(StartCallback(timer[1], heap, currentBlockSize))
    /\ UNCHANGED <<uiVars, runs, libVars>>

CreateCanvas ==
    /\ pc = "canvas"
    /\ \E n \in CreateCanvasStep(Machine) : Install(n)
    /\ UNCHANGED <<uiVars, timer, runs, libVars>>

AdjustSize ==
    /\ pc = "adjust"
    /\ \E n \in AdjustSizeStep(Machine) : Install(n)
    /\ UNCHANGED <<uiVars, timer, runs, libVars>>

CropCentered ==
    /\ pc = "crop"
    /\ \E n \in CropCenteredStep(Machine) : Install(n)
    /\ UNCHANGED <<uiVars, timer, runs, libVars>>

Pixelate ==
    /\ pc = "pixelate"
    /\ \E n \in PixelateStep(Machine) : Install(n)
    /\ UNCHANGED <<uiVars, timer, runs, libVars>>

GetImageData ==
    /\ pc = "getImageData"
    /\ \E n \in GetImageDataStep(Machine) : Install(n)
    /\ UNCHANGED <<uiVars, timer, runs, libVars>>

FlattenAlpha ==
    /\ pc = "flatten"
    /\ \E n \in FlattenAlphaStep(Machine) : Install(n)
    /\ UNCHANGED <<uiVars, timer, runs, libVars>>

ReduceColors ==
    /\ pc = "reduce"
    /\ \E n \in ReduceColorsStep(Machine) : Install(n)
    /\ UNCHANGED <<uiVars, timer, runs, libVars>>

PutImageData ==
    /\ pc = "put"
    /\ \E n \in PutImageDataStep(Machine) : Install(n)
    /\ UNCHANGED <<uiVars, timer, runs, libVars>>

Publish ==
    /\ pc = "publish"
    /\ Published(Machine)
    /\ UNCHANGED <<blockSize, ditherChecked, noPixelateChecked, selectedColors,
                   currentImage, timer, runs, libVars>>

NextPipeline ==
    \/ TimerFires \/ CreateCanvas \/ AdjustSize \/ CropCentered \/ Pixelate
    \/ GetImageData \/ FlattenAlpha \/ ReduceColors \/ PutImageData \/ Publish

SpecPipeline == InitPipeline /\ [][NextPipeline]_vars

(***************************************************************************)
(* Properties of adjustImageSize.                                          *)
(***************************************************************************)
\* C1: for every blockSize >= 1 and positive source dimensions, the width and
\* the height returned by adjustImageSize are multiples of blockSize and are
\* at least blockSize, also when the source dimension is below blockSize.
C1_AdjustedIsBlockMultiple ==
    ret.kind = "return" =>
        /\ ret.value.width % args.blockSize = 0
        /\ ret.value.height % args.blockSize = 0
        /\ ret.value.width >= args.blockSize
        /\ ret.value.height >= args.blockSize

\* a source narrower than one block came out one block wide
C1_Witness ==
    /\ ret.kind = "return"
    /\ args.originalWidth < args.blockSize
    /\ args.originalHeight > args.blockSize
    /\ ret.value.width = args.blockSize

(***************************************************************************)
(* Properties of findNearestPaletteColor.                                  *)
(***************************************************************************)
SquaredEuclidean(r, g, b, c) ==
    (r - c[1]) ^ 2 + (g - c[2]) ^ 2 + (b - c[3]) ^ 2

NearestCalled == ret.kind = "return" /\ Len(args.palette) > 0

\* C2: for a non-empty palette the search returns an entry of the palette
\* whose squared Euclidean distance to the query is minimal over the palette.
C2_NearestIsMinimal ==
    NearestCalled =>
        /\ \E i \in 1..Len(args.palette) : args.palette[i] = ret.value
        /\ \A j \in 1..Len(args.palette) :
              SquaredEuclidean(args.r, args.g, args.b, ret.value)
                  <= SquaredEuclidean(args.r, args.g, args.b, args.palette[j])

\* the nearest entry is not the first one, and it beats the first strictly
C2_Witness ==
    /\ NearestCalled
    /\ Len(args.palette) = 3
    /\ ret.value # args.palette[1]
    /\ SquaredEuclidean(args.r, args.g, args.b, ret.value)
           < SquaredEuclidean(args.r, args.g, args.b, args.palette[1])

\* C3: when several entries are at the minimal distance, the entry returned
\* is the one of lowest index; palette <<Black, Gray10>> and query (5,5,5)
\* return Black.
C3_TieGoesToLowestIndex ==
    NearestCalled =>
        /\ ret.entry \in 1..Len(args.palette)
        /\ ret.value = args.palette[ret.entry]
        /\ \A j \in 1..Len(args.palette) :
              (SquaredEuclidean(args.r, args.g, args.b, args.palette[j])
                  <= SquaredEuclidean(args.r, args.g, args.b, ret.value))
              => ret.entry <= j
        /\ (args.r = 5 /\ args.g = 5 /\ args.b = 5 /\ args.palette = <<Black, Gray10>>)
              => ret.value = Black

\* the spec's example: both entries at distance 75, the first is returned
C3_Witness ==
    /\ NearestCalled
    /\ args.r = 5 /\ args.g = 5 /\ args.b = 5
    /\ args.palette = <<Black, Gray10>>
    /\ SquaredEuclidean(5, 5, 5, Black) = 75
    /\ SquaredEuclidean(5, 5, 5, Gray10) = 75
    /\ ret.entry = 1

(***************************************************************************)
(* Properties of quantizeToNearestColor.                                   *)
(***************************************************************************)
\* colour c is at minimal squared distance from <<r, g, b>> over the palette,
\* and no entry before its first occurrence is as near
IsNearestOf(c, rgb, palette) ==
    \E i \in 1..Len(palette) :
        /\ palette[i] = c
        /\ \A j \in 1..Len(palette) :
              /\ SquaredEuclidean(rgb[1], rgb[2], rgb[3], c)
                    <= SquaredEuclidean(rgb[1], rgb[2], rgb[3], palette[j])
              /\ j < i => SquaredEuclidean(rgb[1], rgb[2], rgb[3], c)
                             < SquaredEuclidean(rgb[1], rgb[2], rgb[3], palette[j])

\* C4: after quantizeToNearestColor with a non-empty palette the (R,G,B) of
\* every pixel is the nearest palette colour of that pixel's own input
\* (R,G,B), so it is a palette colour, and every alpha byte is as before.
C4_QuantizeNearestKeepsAlpha ==
    (ret.kind = "return" /\ Len(args.palette) > 0) =>
        LET before == loc[1]
            after == heap[args.imageData.data]
        IN /\ DOMAIN after = DOMAIN before
           /\ \A k \in 0..(Pixels(before) - 1) :
                 /\ IsNearestOf(RGBAt(after, k), RGBAt(before, k), args.palette)
                 /\ \E i \in 1..Len(args.palette) : args.palette[i] = RGBAt(after, k)
                 /\ AlphaAt(after, k) = AlphaAt(before, k)

\* two pixels of different colours and alphas 0 and 77 were quantized to
\* different palette colours
C4_Witness ==
    /\ ret.kind = "return"
    /\ Len(args.palette) = 2
    /\ Pixels(loc[1]) = 2
    /\ AlphaAt(loc[1], 0) = 0 /\ AlphaAt(loc[1], 1) = 77
    /\ RGBAt(heap[1], 0) # RGBAt(heap[1], 1)
    /\ RGBAt(heap[1], 0) # RGBAt(loc[1], 0)

(***************************************************************************)
(* Properties of flattenAlpha.                                             *)
(***************************************************************************)
\* C7: flattenAlpha leaves every pixel of alpha 255 byte-identical, so an
\* opaque buffer is unchanged, and a second application changes nothing.
C7_FlattenIdempotent ==
    /\ Len(loc) >= 2 =>
          /\ \A k \in 0..(Pixels(loc[1]) - 1) :
                AlphaAt(loc[1], k) = 255 => PixelAt(loc[2], k) = PixelAt(loc[1], k)
          /\ (\A k \in 0..(Pixels(loc[1]) - 1) : AlphaAt(loc[1], k) = 255)
                => loc[2] = loc[1]
    /\ Len(loc) >= 3 => loc[3] = loc[2]

\* a buffer with an opaque and a translucent pixel was flattened twice, and
\* the first application changed it
C7_Witness ==
    /\ Len(loc) >= 3
    /\ Pixels(loc[1]) = 2
    /\ AlphaAt(loc[1], 0) = 255
    /\ AlphaAt(loc[1], 1) = 128
    /\ loc[2] # loc[1]

\* v is the integer nearest to num / 255
NearestInteger(v, num) == 2 * (IF 255 * v >= num THEN 255 * v - num ELSE num - 255 * v) <= 255

\* C8: after flattenAlpha every pixel has alpha 255; each colour channel of
\* a pixel that had alpha a < 255 is round(channel * a/255 + 255 * (1 - a/255));
\* a pixel of alpha 0 becomes (255, 255, 255, 255).
C8_FlattenCompositesOnWhite ==
    Len(loc) >= 2 =>
        \A k \in 0..(Pixels(loc[1]) - 1) :
            LET a == AlphaAt(loc[1], k)
            IN /\ AlphaAt(loc[2], k) = 255
               /\ a < 255 =>
                     \A ch \in 0..2 :
                         /\ loc[2][4 * k + ch] \in 0..255
                         /\ NearestInteger(loc[2][4 * k + ch],
                                           loc[1][4 * k + ch] * a + 255 * (255 - a))
               /\ a = 0 => PixelAt(loc[2], k) = <<255, 255, 255, 255>>

\* a half-transparent black pixel became mid grey, a transparent one white
C8_Witness ==
    /\ Len(loc) = 2
    /\ Pixels(loc[1]) = 2
    /\ PixelAt(loc[1], 0) = <<0, 255, 19, 128>>
    /\ PixelAt(loc[2], 0) = <<127, 255, 137, 255>>
    /\ AlphaAt(loc[1], 1) = 0
    /\ RGBAt(loc[1], 1) # <<255, 255, 255>>
    /\ PixelAt(loc[2], 1) = <<255, 255, 255, 255>>

(***************************************************************************)
(* Properties of floydSteinbergDither.                                     *)
(***************************************************************************)
DitherReturned == ret.kind = "return" /\ Len(args.entries) > 0
DitherOutput == heap[ret.value.data]
DitherPixelCount == args.imageData.width * args.imageData.height

\* C5: for every input buffer and non-empty palette, the (R,G,B) of every
\* pixel of the buffer returned by floydSteinbergDither is one of the
\* palette's colours.
C5_DitherOutputInPalette ==
    DitherReturned =>
        \A k \in 0..(DitherPixelCount - 1) :
            \E i \in 1..Len(args.entries) : args.entries[i] = RGBAt(DitherOutput, k)

\* on an image of two rows and two columns a pixel received error: its
\* output is not the nearest palette colour of its own input
C5_Witness ==
    /\ DitherReturned
    /\ args.imageData.width >= 2 /\ args.imageData.height >= 2
    /\ \E k \in 0..(DitherPixelCount - 1) :
          RGBAt(DitherOutput, k) #
              findNearestPaletteColor(args.bytes[4 * k], args.bytes[4 * k + 1],
                                      args.bytes[4 * k + 2], args.entries)

C9_DitherLeavesInputAlone ==
    /\ heap[args.imageData.data] = args.bytes
    /\ heap[args.palette] = args.entries
    /\ ret.kind = "return" =>
          /\ ret.value.data # args.imageData.data
          /\ ret.value.data # args.palette
          /\ ret.value.width = args.imageData.width
          /\ ret.value.height = args.imageData.height
          /\ Length(heap[ret.value.data]) = 4 * ret.value.width * ret.value.height

\* the pass changed pixels of its working buffer
C9_Witness ==
    /\ DitherReturned
    /\ DitherPixelCount >= 4
    /\ \A k \in 0..(DitherPixelCount - 1) : RGBAt(DitherOutput, k) # RGBAt(args.bytes, k)
    /\ heap[args.imageData.data] = args.bytes

(***************************************************************************)
(* Properties of the callback of processImage, statement by statement.     *)
(***************************************************************************)
\* the place of a call in the log of the running callback, 0 when not made
PositionOf(name) ==
    IF \E i \in 1..Len(calls) : calls[i] = name
    THEN CHOOSE i \in 1..Len(calls) : calls[i] = name /\ \A j \in 1..(i - 1) : calls[j] # name
    ELSE 0

Called(name) == PositionOf(name) > 0

Before(first, second) == Called(first) /\ PositionOf(first) < PositionOf(second)

Reducers == {"quantizeToNearestColor", "floydSteinbergDither"}

ReducerCalls == { i \in 1..Len(calls) : calls[i] \in Reducers }

\* C10: in every run of the deferred callback of processImage the stages are
\* called in the order adjustImageSize, drawImage (crop/centre), pixelateImage
\* (unless the skip flag was set at the click), flattenAlpha, colour reducer:
\* flattenAlpha is called after the pixelation stage and before the reducer,
\* no stage is called twice, never more than one reducer call is made, the
\* one made is floydSteinbergDither exactly when the dithering flag was set,
\* and a run that reaches its end has made all these calls.
C10_StagesInFixedOrder ==
    pc # "idle" =>
        LET c == frame.closure
            reducer == IF c.ditherChecked THEN "floydSteinbergDither"
                       ELSE "quantizeToNearestColor"
        IN /\ \A i, j \in 1..Len(calls) : calls[i] = calls[j] => i = j
           /\ Called("drawImage") => Before("adjustImageSize", "drawImage")
           /\ Called("pixelateImage") =>
                  ~c.noPixelateChecked /\ Before("drawImage", "pixelateImage")
           /\ Called("flattenAlpha") =>
                  /\ Before("drawImage", "flattenAlpha")
                  /\ Called("pixelateImage") = ~c.noPixelateChecked
                  /\ Called("pixelateImage") => Before("pixelateImage", "flattenAlpha")
           /\ \A i \in ReducerCalls :
                  /\ calls[i] = reducer
                  /\ Before("flattenAlpha", reducer)
           /\ Cardinality(ReducerCalls) <= 1
           /\ pc \in {"put", "publish"} => Cardinality(ReducerCalls) = 1

\* a run with dithering and without the skip flag is at its end: all five
\* stages were called
C10_Witness ==
    /\ pc = "publish"
    /\ frame.closure.ditherChecked /\ ~frame.closure.noPixelateChecked
    /\ Before("adjustImageSize", "drawImage")
    /\ Before("drawImage", "pixelateImage")
    /\ Before("pixelateImage", "flattenAlpha")
    /\ Before("flattenAlpha", "floydSteinbergDither")
    /\ ~Called("quantizeToNearestColor")

\* a run with the skip flag and without dithering is at its end
C10_SkipWitness ==
    /\ pc = "publish"
    /\ ~frame.closure.ditherChecked /\ frame.closure.noPixelateChecked
    /\ ~Called("pixelateImage")
    /\ Before("flattenAlpha", "quantizeToNearestColor")

(***************************************************************************)
(* Properties of the App component over whole sessions.                    *)
(***************************************************************************)
\* the callback of the pending request runs to its end and publishes
CallbackPublishes == processing /\ ~processing'

\* C11: whatever slider and checkbox changes were made, the slider value, the
\* value a pending request closed over and the effective block size of the
\* last run are integers >= 1; and a run sets the effective block size, which
\* is what it passes to adjustImageSize and pixelateImage, to 1 when the
\* dithering flag or the skip flag was set at the click and to the slider
\* value of the click otherwise: the published canvas has the size
\* adjustImageSize gives for that block size.
C11_EffectiveBlockSize ==
    /\ [](/\ blockSize \in Nat /\ blockSize >= 1
          /\ Len(timer) > 0 => timer[1].blockSize \in Nat /\ timer[1].blockSize >= 1
          /\ currentBlockSize \in Nat
          /\ processedCanvas # NullRef => currentBlockSize >= 1)
    /\ [][CallbackPublishes =>
            LET c == timer[1]
                img == Images[c.currentImage]
                passed == IF c.ditherChecked \/ c.noPixelateChecked THEN 1 ELSE c.blockSize
                canvas == heap'[processedCanvas']
            IN /\ currentBlockSize' = passed
               /\ passed >= 1
               /\ canvas.width % passed = 0 /\ canvas.height % passed = 0
               /\ canvas.width = Max((img.naturalWidth \div passed) * passed, passed)
               /\ canvas.height = Max((img.naturalHeight \div passed) * passed, passed)]_vars

\* a run made with a flag set has published: the effective block size is 1
\* although the slider is not
C11_Witness ==
    /\ processedCanvas # NullRef /\ ~processing
    /\ currentBlockSize = 1
    /\ blockSize > 1

\* a run made without a flag has published with the slider value
C11_SliderWitness ==
    /\ processedCanvas # NullRef /\ ~processing
    /\ currentBlockSize > 1

(***************************************************************************)
(* Properties of one request (SpecPipeline).                               *)
(***************************************************************************)
\* the image the running callback works on and the canvas it draws to
RunImage == Images[frame.closure.currentImage]
RunCanvas == heap[frame.canvas]

HasTranslucentPixel(data) == \E k \in 0..(Pixels(data) - 1) : AlphaAt(data, k) < 255

\* C12: when a run has put its result on the canvas, the canvas and the
\* ImageData it was put from hold width * height >= 1 pixels and every one
\* has alpha 255, whatever the image (translucent pixels included), the
\* slider value, the flags and the colour selection.
C12_OutputFullyOpaque ==
    pc = "publish" =>
        LET out == heap[frame.processedImageData.data]
        IN /\ Pixels(RunCanvas.bitmap) = RunCanvas.width * RunCanvas.height
           /\ Pixels(RunCanvas.bitmap) >= 1
           /\ Length(RunCanvas.bitmap) = 4 * Pixels(RunCanvas.bitmap)
           /\ \A k \in 0..(Pixels(RunCanvas.bitmap) - 1) : AlphaAt(RunCanvas.bitmap, k) = 255
           /\ \A k \in 0..(Pixels(out) - 1) : AlphaAt(out, k) = 255

\* a dithered run on an image with translucent and transparent pixels is at
\* its end
C12_Witness ==
    /\ pc = "publish"
    /\ frame.closure.ditherChecked
    /\ HasTranslucentPixel(RunImage.data)
    /\ \E k \in 0..(Pixels(RunImage.data) - 1) : AlphaAt(RunImage.data, k) = 0
    /\ Called("flattenAlpha")

\* the same on the quantize path
C12_QuantizeWitness ==
    /\ pc = "publish"
    /\ ~frame.closure.ditherChecked
    /\ HasTranslucentPixel(RunImage.data)

\* (a - b) / 2 truncated to an integer (towards zero)
HalfTruncated(a, b) == IF a >= b THEN (a - b) \div 2 ELSE -((b - a) \div 2)

\* C13: the offset handed to drawImage to centre the source in the adjusted
\* canvas is, on each axis, (original - adjusted) / 2 truncated to an integer
\* (the model keeps the offsets doubled).
C13_OffsetIsTruncated ==
    (pc # "idle" /\ Called("drawImage")) =>
        /\ frame.offsetX2 = 2 * HalfTruncated(RunImage.naturalWidth, frame.adjustedSize.width)
        /\ frame.offsetY2 = 2 * HalfTruncated(RunImage.naturalHeight, frame.adjustedSize.height)

\* what the code computes: the untruncated half of the difference, which is
\* the truncated one only when the difference is even
C13_OffsetIsExactHalf ==
    (pc # "idle" /\ Called("drawImage")) =>
        /\ frame.offsetX2 = RunImage.naturalWidth - frame.adjustedSize.width
        /\ frame.offsetY2 = RunImage.naturalHeight - frame.adjustedSize.height

\* the image was drawn from an offset that is not a whole number of pixels
C13_FractionalOffset ==
    /\ pc # "idle" /\ Called("drawImage")
    /\ frame.offsetX2 % 2 = 1

\* the pixels of the source image as drawImage put them on the canvas
CroppedSource(mode) ==
    DrawCropped(RunImage, frame.offsetX2, frame.offsetY2, frame.adjustedSize.width,
                frame.adjustedSize.height, mode)

\* C14: pixelateImage with a block size <= 1 gives back the bitmap of the
\* canvas as it is, a run with the skip flag set does not call pixelateImage,
\* and in a run with the skip flag or with an effective block size of 1 the
\* ImageData that goes to flattenAlpha holds exactly the pixels drawImage put
\* on the canvas, which are then the pixels of the source image.
C14_NoPixelationLeavesCrop ==
    /\ pc = "pixelate" =>
           \A bs \in {-1, 0, 1}, tie \in {0, 1} :
               pixelateImage(RunCanvas, bs, tie) = RunCanvas.bitmap
    /\ (pc # "idle" /\ frame.closure.noPixelateChecked) => ~Called("pixelateImage")
    /\ (pc = "flatten" /\ (frame.closure.noPixelateChecked \/ currentBlockSize <= 1)) =>
           /\ frame.offsetX2 = 0 /\ frame.offsetY2 = 0
           /\ heap[frame.imageData.data] = CroppedSource("floor")
           /\ heap[frame.imageData.data] = RunImage.data
           /\ frame.imageData.width = RunImage.naturalWidth
           /\ frame.imageData.height = RunImage.naturalHeight

\* a dithered run without the skip flag, slider above 1, is about to flatten:
\* pixelateImage was called with block size 1 on an image of several colours
C14_Witness ==
    /\ pc = "flatten"
    /\ frame.closure.ditherChecked /\ ~frame.closure.noPixelateChecked
    /\ frame.closure.blockSize > 1 /\ currentBlockSize = 1
    /\ Called("pixelateImage")
    /\ \E k \in 1..(Pixels(RunImage.data) - 1) :
           PixelAt(RunImage.data, k) # PixelAt(RunImage.data, 0)

\* a run with the skip flag is about to flatten
C14_SkipWitness ==
    /\ pc = "flatten"
    /\ frame.closure.noPixelateChecked /\ ~frame.closure.ditherChecked
    /\ ~Called("pixelateImage")

(***************************************************************************)
(* Properties of pixelateImage.                                            *)
(***************************************************************************)
\* pixelateImage drew and returned the canvas
PixelateDrawn == ret.kind = "return" /\ ret.canvas

PixelatedCanvas == heap[args.canvas]

\* pixel (x, y) of the canvas after and before the call
PixelAfter(x, y) ==
    BitmapPixel(PixelatedCanvas.bitmap, PixelatedCanvas.width, PixelatedCanvas.height, x, y)
PixelBefore(x, y) == BitmapPixel(args.bitmap, args.width, args.height, x, y)

\* C15: when pixelateImage has drawn with a block size > 1 on a canvas whose
\* width and height are multiples of the block size, the canvas has the size
\* it had, and every aligned block of blockSize x blockSize pixels has one
\* colour, which is the colour one source pixel of that block had before the
\* call (a sample, not an average); a 4 x 4 canvas with block size 2 has four
\* flat 2 x 2 blocks.
C15_BlocksAreFlatSamples ==
    (PixelateDrawn /\ args.blockSize > 1
        /\ args.width % args.blockSize = 0 /\ args.height % args.blockSize = 0) =>
        LET bs == args.blockSize
        IN /\ PixelatedCanvas.width = args.width
           /\ PixelatedCanvas.height = args.height
           /\ Length(PixelatedCanvas.bitmap) = 4 * args.width * args.height
           /\ \A bx \in 0..((args.width \div bs) - 1), by \in 0..((args.height \div bs) - 1) :
                  \E sx \in (bx * bs)..(bx * bs + bs - 1), sy \in (by * bs)..(by * bs + bs - 1) :
                      \A x \in (bx * bs)..(bx * bs + bs - 1), y \in (by * bs)..(by * bs + bs - 1) :
                          PixelAfter(x, y) = PixelBefore(sx, sy)

\* a 4 x 4 canvas was pixelated with block size 2
C15_Witness ==
    /\ PixelateDrawn
    /\ args.width = 4 /\ args.height = 4 /\ args.blockSize = 2
    /\ PixelAfter(0, 0) = PixelAfter(1, 1)
    /\ PixelAfter(2, 0) # PixelAfter(1, 0)
    /\ PixelAfter(0, 2) # PixelAfter(0, 1)

(***************************************************************************)
(* floydSteinbergDither on the 2 x 1 image of the spec's scenario.         *)
(***************************************************************************)
MidGray == <<128, 128, 128, 255>>

\* the call of the scenario: two pixels (128,128,128), palette black, white
TwoGrayCall ==
    /\ args.imageData.width = 2 /\ args.imageData.height = 1
    /\ PixelAt(args.bytes, 0) = MidGray /\ PixelAt(args.bytes, 1) = MidGray
    /\ args.entries = <<Black, White>>

\* the first pixel has been visited, the second not yet
FirstVisited == loc.pc = "loop" /\ loc.x = 1 /\ loc.y = 0

\* 16 times the value 128 + (128 - 255) * 7 / 16
SecondInput16 == 16 * 128 + (128 - 255) * 7

\* C16 as stated: on the 2 x 1 image the first pixel becomes white, the
\* second pixel's input to its nearest-colour search is exactly
\* 128 + (128 - 255) * 7/16 on each channel, and the result is white, black.
C16_SecondInputIsExactShare ==
    TwoGrayCall =>
        /\ FirstVisited =>
               /\ RGBAt(heap[loc.data], 0) = White
               /\ \A c \in 0..2 : 16 * heap[loc.data][4 + c] = SecondInput16
        /\ DitherReturned =>
               /\ RGBAt(DitherOutput, 0) = White
               /\ RGBAt(DitherOutput, 1) = Black

\* C16, amended: the second pixel's input is that value as the byte array
\* stores it, rounded to the nearest integer: 72 on each channel, not 72.4375.
\* The first pixel becomes white, the second black, in every run.
C16_SecondInputIsRoundedShare ==
    TwoGrayCall =>
        /\ FirstVisited =>
               /\ RGBAt(heap[loc.data], 0) = White
               /\ \A c \in 0..2 :
                      /\ heap[loc.data][4 + c] = 72
                      /\ 16 * heap[loc.data][4 + c] - SecondInput16 \in -8..8
        /\ DitherReturned =>
               /\ Pixels(DitherOutput) = 2
               /\ PixelAt(DitherOutput, 0) = <<255, 255, 255, 255>>
               /\ PixelAt(DitherOutput, 1) = <<0, 0, 0, 255>>

\* the scenario's call has returned
C16_Witness == TwoGrayCall /\ DitherReturned /\ RGBAt(DitherOutput, 1) = Black

\* the scenario's call is between its two visits
C16_BetweenVisits == TwoGrayCall /\ FirstVisited

\* the source image of the run has one colour, fully opaque, and that colour
\* is an entry of the run's palette
SolidPaletteSource ==
    /\ AlphaAt(RunImage.data, 0) = 255
    /\ \A k \in 0..(Pixels(RunImage.data) - 1) :
           PixelAt(RunImage.data, k) = PixelAt(RunImage.data, 0)
    /\ \E e \in 1..Len(frame.finalPaletteRGB) :
           frame.finalPaletteRGB[e] = RGBAt(RunImage.data, 0)

\* the scenario: 8 x 8 solid red, block size 4, dithering off, no skip
SolidRedRun ==
    /\ RunImage.naturalWidth = 8 /\ RunImage.naturalHeight = 8
    /\ PixelAt(RunImage.data, 0) = <<255, 0, 0, 255>>
    /\ frame.closure.blockSize = 4
    /\ ~frame.closure.ditherChecked /\ ~frame.closure.noPixelateChecked

\* C17: on the quantize path a run on a solid opaque image whose colour is a
\* palette entry ends with a canvas of the adjusted size in which every
\* pixel is the source's pixel; the 8 x 8 solid red image with block size 4
\* ends as 8 x 8 pixels (255, 0, 0, 255).
C17_SolidPaletteColourUnchanged ==
    (pc = "publish" /\ ~frame.closure.ditherChecked /\ SolidPaletteSource) =>
        /\ RunCanvas.width = frame.adjustedSize.width
        /\ RunCanvas.height = frame.adjustedSize.height
        /\ Pixels(RunCanvas.bitmap) = RunCanvas.width * RunCanvas.height
        /\ \A k \in 0..(Pixels(RunCanvas.bitmap) - 1) :
               PixelAt(RunCanvas.bitmap, k) = PixelAt(RunImage.data, 0)
        /\ SolidRedRun =>
               /\ RunCanvas.width = 8 /\ RunCanvas.height = 8
               /\ Pixels(RunCanvas.bitmap) = 64
               /\ \A k \in 0..63 : PixelAt(RunCanvas.bitmap, k) = <<255, 0, 0, 255>>

\* the scenario's run is at its end, pixelateImage and the quantizer called
C17_Witness ==
    /\ pc = "publish"
    /\ SolidRedRun /\ SolidPaletteSource
    /\ currentBlockSize = 4
    /\ Called("pixelateImage") /\ Called("quantizeToNearestColor")

(***************************************************************************)
(* The reducers on an empty palette.                                       *)
(***************************************************************************)
\* C18: quantizeToNearestColor called with an empty palette on a buffer of
\* at least one pixel ends by throwing, returns no ImageData and has written
\* nothing to the buffer; floydSteinbergDither on the same buffer and
\* palette throws as well and leaves the buffer as it was.
C18_EmptyPaletteThrows ==
    (Len(args.palette) = 0 /\ ret.kind # "none") =>
        /\ Pixels(loc[1]) >= 1
        /\ ret.kind = "throw"
        /\ heap[args.imageData.data] = loc[1]
        /\ LET d == floydSteinbergDither(<<loc[1]>>, args.imageData, args.palette)
           IN /\ d.kind = "throw"
              /\ d.heap[args.imageData.data] = loc[1]

\* the call with an empty palette is over
C18_Witness ==
    /\ Len(args.palette) = 0
    /\ ret.kind = "throw"
    /\ Pixels(heap[args.imageData.data]) >= 1

(***************************************************************************)
(* The nearest-colour search and the order of the palette.                 *)
(***************************************************************************)
\* the palettes holding the entries of p in some order
PermutationsOf(p) ==
    { [i \in 1..Len(p) |-> p[f[i]]] :
        f \in { g \in [1..Len(p) -> 1..Len(p)] :
                  \A i, j \in 1..Len(p) : g[i] = g[j] => i = j } }

\* the RGB values of the palette at minimal distance from the query
NearestValues(r, g, b, palette) ==
    { palette[i] : i \in { k \in 1..Len(palette) :
                             \A j \in 1..Len(palette) :
                                 SquaredEuclidean(r, g, b, palette[k])
                                     <= SquaredEuclidean(r, g, b, palette[j]) } }

\* C19: when a single RGB value of the palette is at minimal distance from
\* the query, findNearestPaletteColor returns that value for every palette
\* holding the same entries in another order.
C19_OrderIndependentOffTies ==
    (NearestCalled /\ Cardinality(NearestValues(args.r, args.g, args.b, args.palette)) = 1) =>
        \A q \in PermutationsOf(args.palette) :
            findNearestPaletteColor(args.r, args.g, args.b, q) = ret.value

\* a palette of three different colours whose nearest entry is the last one,
\* without a tie: in other orders the nearest entry is met earlier
C19_Witness ==
    /\ NearestCalled
    /\ Len(args.palette) = 3
    /\ Cardinality({args.palette[i] : i \in 1..3}) = 3
    /\ Cardinality(NearestValues(args.r, args.g, args.b, args.palette)) = 1
    /\ ret.entry = 3
    /\ Cardinality(PermutationsOf(args.palette)) = 6

\* on a tie between two different colours the order decides
C19_TieDependsOnOrder ==
    /\ NearestCalled
    /\ Cardinality(NearestValues(args.r, args.g, args.b, args.palette)) > 1
    /\ \E q \in PermutationsOf(args.palette) :
           findNearestPaletteColor(args.r, args.g, args.b, q) # ret.value

(***************************************************************************)
(* pixelateImage on a canvas smaller than the block.                       *)
(***************************************************************************)
\* the colour is the colour a pixel of the canvas had before the call
IsSourceColour(p) ==
    \E sx \in 0..(args.width - 1), sy \in 0..(args.height - 1) : p = PixelBefore(sx, sy)

\* C20: when pixelateImage has drawn with a block size > 1 on a canvas
\* narrower than the block, the width is sampled down to exactly one sample
\* and every row of the result has one colour from its first to its last
\* pixel, a colour of the source; likewise every column when the canvas is
\* lower than the block.  The size of the canvas is kept.
C20_SmallAxisCollapses ==
    (PixelateDrawn /\ args.blockSize > 1) =>
        /\ PixelatedCanvas.width = args.width /\ PixelatedCanvas.height = args.height
        /\ args.width < args.blockSize =>
               /\ SmallSize(args.width, args.blockSize) = 1
               /\ \A y \in 0..(args.height - 1) :
                      /\ IsSourceColour(PixelAfter(0, y))
                      /\ \A x \in 0..(args.width - 1) : PixelAfter(x, y) = PixelAfter(0, y)
        /\ args.height < args.blockSize =>
               /\ SmallSize(args.height, args.blockSize) = 1
               /\ \A x \in 0..(args.width - 1) :
                      /\ IsSourceColour(PixelAfter(x, 0))
                      /\ \A y \in 0..(args.height - 1) : PixelAfter(x, y) = PixelAfter(x, 0)

\* a canvas 3 wide and 4 high was pixelated with block size 4: the rows were
\* of three colours, and only the width is smaller than the block
C20_Witness ==
    /\ PixelateDrawn
    /\ args.width = 3 /\ args.height = 4 /\ args.blockSize = 4
    /\ PixelBefore(0, 0) # PixelBefore(2, 0)
    /\ PixelAfter(0, 0) = PixelAfter(2, 0)

\* both axes smaller than the block: the whole canvas is one colour
C20_BothAxesWitness ==
    /\ PixelateDrawn
    /\ args.width = 2 /\ args.height = 3 /\ args.blockSize = 4
    /\ \A x \in 0..1, y \in 0..2 : PixelAfter(x, y) = PixelAfter(0, 0)

(***************************************************************************)
(* floydSteinbergDither, visit by visit (SpecDither).                      *)
(***************************************************************************)
\* the call is inside its loops
Dithering == loc.pc = "loop"

\* number (row-major) of the pixel the next visit is for
VisitNumber == loc.y * loc.width + loc.x

\* pixel j is one of the four neighbours of (x, y) the kernel names
IsKernelNeighbour(j, width, x, y) ==
    LET jx == j % width
        jy == j \div width
    IN \/ jx = x + 1 /\ jy = y
       \/ jx = x - 1 /\ jy = y + 1
       \/ jx = x /\ jy = y + 1
       \/ jx = x + 1 /\ jy = y + 1

IsPaletteColour(rgb) == \E e \in 1..Len(args.entries) : args.entries[e] = rgb

\* C21: the pixels are visited in raster order, each once: every visit is
\* for the pixel after the one visited before.  A visit changes the visited
\* pixel and, of the others, only pixels at (x+1,y), (x-1,y+1), (x,y+1),
\* (x+1,y+1) inside the grid, all of them not yet visited: the size of the
\* buffer stays, the first pixel of the next row gets nothing from the last
\* pixel of a row unless it is one of these neighbours, and every pixel
\* visited earlier keeps the palette colour it was given.
C21_ForwardPassNoWrap ==
    /\ [](Dithering =>
            /\ loc.x \in 0..(loc.width - 1)
            /\ VisitNumber \in 0..(loc.width * loc.height)
            /\ Length(heap[loc.data]) = 4 * loc.width * loc.height
            /\ \A j \in 0..(VisitNumber - 1) : IsPaletteColour(RGBAt(heap[loc.data], j)))
    /\ [][(Dithering /\ loc'.pc = "loop") =>
            LET k == VisitNumber
                before == heap[loc.data]
                after == heap'[loc.data]
            IN /\ loc'.data = loc.data
               /\ loc'.y * loc'.width + loc'.x = k + 1
               /\ DOMAIN after = DOMAIN before
               /\ IsPaletteColour(RGBAt(after, k))
               /\ \A j \in 0..(Pixels(before) - 1) :
                      PixelAt(after, j) # PixelAt(before, j) =>
                          \/ j = k
                          \/ j > k /\ IsKernelNeighbour(j, loc.width, loc.x, loc.y)]_vars

\* the last pixel of the first row of a 3 x 2 image has been visited, with
\* an error, and the first pixel of the second row is next
C21_Witness ==
    /\ Dithering
    /\ loc.width = 3 /\ loc.height = 2
    /\ loc.x = 0 /\ loc.y = 1
    /\ RGBAt(heap[loc.data], 2) # RGBAt(args.bytes, 2)
    /\ IsPaletteColour(RGBAt(heap[loc.data], 2))

\* the working buffer when k pixels have been visited, from the bytes of the
\* call on
RECURSIVE BufferAtVisit(_)
BufferAtVisit(k) ==
    IF k = 0 THEN args.bytes
    ELSE DitherPixel(BufferAtVisit(k - 1), args.imageData.width, args.imageData.height,
                     (k - 1) % args.imageData.width, (k - 1) \div args.imageData.width,
                     args.entries)

\* what pixel j held when it was visited, and the error of its visit
InputAt(j) == RGBAt(BufferAtVisit(j), j)
ErrorAt(j, c) ==
    InputAt(j)[c] - findNearestPaletteColor(InputAt(j)[1], InputAt(j)[2], InputAt(j)[3],
                                            args.entries)[c]

\* the visited neighbours of (x, y) with their shares, in the order of their
\* visits: (x-1,y-1), (x,y-1), (x+1,y-1), (x-1,y)
Arrivals(width, x, y) ==
    (IF x > 0 /\ y > 0 THEN << [j |-> (y - 1) * width + x - 1, weight |-> 1] >> ELSE <<>>)
    \o (IF y > 0 THEN << [j |-> (y - 1) * width + x, weight |-> 5] >> ELSE <<>>)
    \o (IF y > 0 /\ x + 1 < width
        THEN << [j |-> (y - 1) * width + x + 1, weight |-> 3] >> ELSE <<>>)
    \o (IF x > 0 THEN << [j |-> y * width + x - 1, weight |-> 7] >> ELSE <<>>)

\* 16 times the sum of the shares of channel c
RECURSIVE ShareSum16(_, _, _)
ShareSum16(arrivals, n, c) ==
    IF n = 0 THEN 0
    ELSE ShareSum16(arrivals, n - 1, c) + arrivals[n].weight * ErrorAt(arrivals[n].j, c)

\* the value after the stores of the first n arrivals, each store clamping
\* and rounding to a byte
RECURSIVE StoredSum(_, _, _, _)
StoredSum(original, arrivals, n, c) ==
    IF n = 0 THEN original
    ELSE ToUint8Clamp16(16 * StoredSum(original, arrivals, n - 1, c)
                        + arrivals[n].weight * ErrorAt(arrivals[n].j, c))

\* a pixel is about to be visited
AboutToVisit == Dithering /\ loc.y < loc.height /\ Len(args.entries) > 0

\* C22 as stated: what the pixel about to be visited holds is its original
\* value plus the sum of the shares of its visited neighbours (7/16, 3/16,
\* 5/16, 1/16 of their errors), clamped to [0, 255].
C22_InputIsClampedSum ==
    AboutToVisit =>
        LET k == VisitNumber
            arrivals == Arrivals(loc.width, loc.x, loc.y)
        IN \A c \in 1..3 :
               16 * RGBAt(heap[loc.data], k)[c]
                   = Max(0, Min(255 * 16,
                                16 * RGBAt(args.bytes, k)[c]
                                    + ShareSum16(arrivals, Len(arrivals), c)))

\* the same with the clamped sum rounded to the nearest integer
C22_InputIsRoundedClampedSum ==
    AboutToVisit =>
        LET k == VisitNumber
            arrivals == Arrivals(loc.width, loc.x, loc.y)
        IN \A c \in 1..3 :
               RGBAt(heap[loc.data], k)[c]
                   = ToUint8Clamp16(16 * RGBAt(args.bytes, k)[c]
                                    + ShareSum16(arrivals, Len(arrivals), c))

\* C22, amended: the shares are added one store at a time, in the order the
\* neighbours are visited, and every store clamps the value to [0, 255] and
\* rounds it to the nearest integer (ties to even); the pixel about to be
\* visited holds the result of these stores.  Nothing else has reached it.
C22_InputIsStoredSum ==
    AboutToVisit =>
        LET k == VisitNumber
            arrivals == Arrivals(loc.width, loc.x, loc.y)
        IN /\ heap[loc.data] = BufferAtVisit(k)
           /\ \A c \in 1..3 :
                  /\ RGBAt(heap[loc.data], k)[c]
                         = StoredSum(RGBAt(args.bytes, k)[c], arrivals, Len(arrivals), c)
                  /\ RGBAt(heap[loc.data], k)[c] \in 0..255

\* the last pixel of a 2 x 2 image is about to be visited: three neighbours
\* have been visited, one of them with an error
C22_Witness ==
    /\ AboutToVisit
    /\ loc.width = 2 /\ loc.height = 2 /\ loc.x = 1 /\ loc.y = 1
    /\ Len(Arrivals(loc.width, loc.x, loc.y)) = 3
    /\ \E c \in 1..3 : ErrorAt(0, c) # 0
    /\ RGBAt(heap[loc.data], 3) # RGBAt(args.bytes, 3)

\* the working buffer exists
HasWorkingBuffer == loc.pc \in {"loop", "done", "thrown"}

\* C23: at every step of floydSteinbergDither every R, G and B value of the
\* working buffer is an integer in 0..255, channel by channel, whatever the
\* sign of the errors and however many of them have arrived; the alpha bytes
\* are in 0..255 too.
C23_WorkingBufferHoldsBytes ==
    HasWorkingBuffer =>
        /\ Length(heap[loc.data]) = 4 * loc.width * loc.height
        /\ \A j \in 0..(Pixels(heap[loc.data]) - 1) :
               /\ \A c \in 1..3 : RGBAt(heap[loc.data], j)[c] \in 0..255
               /\ AlphaAt(heap[loc.data], j) \in 0..255

\* a negative red error and positive green and blue errors have reached a
\* black pixel: its red stays 0, its green and blue have grown
C23_Witness ==
    /\ Dithering /\ loc.width >= 2 /\ VisitNumber = 1
    /\ Len(args.entries) > 0
    /\ ErrorAt(0, 1) < 0 /\ ErrorAt(0, 2) > 0 /\ ErrorAt(0, 3) > 0
    /\ RGBAt(args.bytes, 1) = <<0, 0, 0>>
    /\ RGBAt(heap[loc.data], 1)[1] = 0
    /\ RGBAt(heap[loc.data], 1)[2] > 0
    /\ RGBAt(heap[loc.data], 1)[3] > 0

\* pixelateImage is about to be called on the canvas of the run
HandedToPixelate == pc = "pixelate" /\ ~frame.closure.noPixelateChecked

\* pixel (x, y) of a bitmap of the size of the run's canvas
RunPixel(bitmap, x, y) == BitmapPixel(bitmap, RunCanvas.width, RunCanvas.height, x, y)

\* C24: the canvas handed to pixelateImage has a width and a height that are
\* multiples of the effective block size and at least one block; the small
\* grid is (width / blockSize) x (height / blockSize) without the minimum of
\* 1 coming into play; and for a block size above 1 the drawn result is made
\* of whole blockSize x blockSize blocks of one colour that cover the canvas
\* exactly.
C24_PixelateGetsWholeBlocks ==
    HandedToPixelate =>
        LET bs == currentBlockSize
            w == RunCanvas.width
            h == RunCanvas.height
        IN /\ bs >= 1
           /\ w % bs = 0 /\ h % bs = 0
           /\ w >= bs /\ h >= bs
           /\ w \div bs >= 1 /\ h \div bs >= 1
           /\ SmallSize(w, bs) = w \div bs /\ SmallSize(h, bs) = h \div bs
           /\ SmallSize(w, bs) * bs = w /\ SmallSize(h, bs) * bs = h
           /\ Length(RunCanvas.bitmap) = 4 * w * h
           /\ bs > 1 =>
                  \A tie \in {0, 1} :
                      LET drawn == pixelateImage(RunCanvas, bs, tie)
                      IN /\ Length(drawn) = 4 * w * h
                         /\ \A bx \in 0..((w \div bs) - 1), by \in 0..((h \div bs) - 1) :
                                \A x \in (bx * bs)..(bx * bs + bs - 1),
                                   y \in (by * bs)..(by * bs + bs - 1) :
                                    RunPixel(drawn, x, y) = RunPixel(drawn, bx * bs, by * bs)

\* a 3 x 2 image with block size 2: the canvas handed over is 2 x 2, one block
C24_Witness ==
    /\ HandedToPixelate
    /\ currentBlockSize = 2
    /\ RunImage.naturalWidth = 3 /\ RunImage.naturalHeight = 2
    /\ RunCanvas.width = 2 /\ RunCanvas.height = 2

\* an image smaller than one block: the canvas is one block all the same
C24_SmallImageWitness ==
    /\ HandedToPixelate
    /\ currentBlockSize > RunImage.naturalWidth
    /\ RunCanvas.width = currentBlockSize /\ RunCanvas.height = currentBlockSize

(***************************************************************************)
(* floydSteinbergDither and quantizeToNearestColor on equal inputs.  The   *)
(* dithering reads buffer 1 and writes a new buffer; the quantization      *)
(* works in place on buffer 3, an equal copy of buffer 1.                  *)
(***************************************************************************)
ComparePixels ==
    { <<0, 0, 0, 255>>, <<255, 0, 0, 40>>, <<255, 255, 255, 255>>, <<128, 128, 128, 255>> }
CompareSizes ==
    { s \in (1..MaxComparePixels) \X (1..MaxComparePixels) : s[1] * s[2] <= MaxComparePixels }
ComparePalettes == { <<Black, White>>, <<White, Red, Black>>, <<Gray10, Red>> }

InitCompare ==
    /\ AppInit /\ RunInit
    /\ \E s \in CompareSizes, palette \in ComparePalettes :
          \E buf \in BuffersOf(s[1] * s[2], ComparePixels) :
              /\ heap = <<buf, palette, buf>>
              /\ args = [imageData |-> [data |-> 1, width |-> s[1], height |-> s[2]],
                         quantized |-> [data |-> 3, width |-> s[1], height |-> s[2]],
                         palette |-> 2, bytes |-> buf, entries |-> palette]
    /\ loc = [pc |-> "compare"]
    /\ ret = [dither |-> [kind |-> "none", value |-> NoImageData],
              quantize |-> [kind |-> "none", value |-> NoImageData]]

CompareDither ==
    /\ ret.dither.kind = "none"
    /\ LET out == floydSteinbergDither(heap, args.imageData, heap[args.palette])
       IN /\ heap' = out.heap
          /\ ret' = [ret EXCEPT !.dither = [kind |-> out.kind, value |-> out.value]]
    /\ UNCHANGED <<appVars, runVars, args, loc>>

CompareQuantize ==
    /\ ret.quantize.kind = "none"
    /\ LET out == quantizeToNearestColor(heap, args.quantized, heap[args.palette])
       IN /\ heap' = out.heap
          /\ ret' = [ret EXCEPT !.quantize = [kind |-> out.kind, value |-> out.value]]
    /\ UNCHANGED <<appVars, runVars, args, loc>>

NextCompare == CompareDither \/ CompareQuantize

SpecCompare == InitCompare /\ [][NextCompare]_vars

BothReturned == ret.dither.kind = "return" /\ ret.quantize.kind = "return"
ComparePixelCount == args.imageData.width * args.imageData.height
Dithered == heap[ret.dither.value.data]
Quantized == heap[ret.quantize.value.data]
AllPaletteColours ==
    \A k \in 0..(ComparePixelCount - 1) : IsPaletteColour(RGBAt(args.bytes, k))

\* C25: when every pixel of the input has an RGB that is a palette entry,
\* every visit of floydSteinbergDither has error zero, its output RGB is the
\* input RGB and is the output RGB of quantizeToNearestColor on the same
\* input; and on a 1 x 1 image, whatever the pixel, the two functions give
\* the same colour.
C25_DitherEqualsQuantize ==
    /\ (loc.pc = "compare" /\ AllPaletteColours) =>
           \A k \in 0..(ComparePixelCount - 1), c \in 1..3 : ErrorAt(k, c) = 0
    /\ (loc.pc = "compare" /\ AllPaletteColours /\ ret.dither.kind = "return") =>
           /\ Length(Dithered) = 4 * ComparePixelCount
           /\ \A k \in 0..(ComparePixelCount - 1) :
                  RGBAt(Dithered, k) = RGBAt(args.bytes, k)
    /\ (loc.pc = "compare" /\ AllPaletteColours /\ BothReturned) =>
           \A k \in 0..(ComparePixelCount - 1) :
               RGBAt(Dithered, k) = RGBAt(Quantized, k)
    /\ (loc.pc = "compare" /\ ComparePixelCount = 1 /\ BothReturned) =>
           RGBAt(Dithered, 0) = RGBAt(Quantized, 0)

\* a 2 x 2 image of three palette colours went through both functions
C25_Witness ==
    /\ loc.pc = "compare" /\ BothReturned /\ AllPaletteColours
    /\ args.imageData.width = 2 /\ args.imageData.height = 2
    /\ RGBAt(args.bytes, 0) = Red /\ RGBAt(args.bytes, 1) = Black
    /\ RGBAt(args.bytes, 2) = White /\ RGBAt(args.bytes, 3) = Red
    /\ \A k \in 0..3 : RGBAt(Dithered, k) = RGBAt(args.bytes, k)

\* a 1 x 1 image whose colour is not in the palette went through both
C25_SinglePixelWitness ==
    /\ loc.pc = "compare" /\ BothReturned /\ ComparePixelCount = 1
    /\ ~AllPaletteColours
    /\ RGBAt(Dithered, 0) # RGBAt(args.bytes, 0)
    /\ RGBAt(Dithered, 0) = RGBAt(Quantized, 0)

\* off palette colours the two functions differ on larger images
C25_DifferOffPalette ==
    /\ loc.pc = "compare" /\ BothReturned /\ ComparePixelCount > 1
    /\ \E k \in 0..(ComparePixelCount - 1) : RGBAt(Dithered, k) # RGBAt(Quantized, k)

(***************************************************************************)
(* The App with its timer: a callback handed to setTimeout (App.tsx 443,   *)
(* 506) is run by the event loop once the delay has passed, statement by   *)
(* statement; the page reacts to no event while it runs.                   *)
(***************************************************************************)
NextLive ==
    \/ SetDitherChecked \/ SetNoPixelateChecked \/ HandleFileSelect \/ ProcessImage
    \/ TimerFires \/ CreateCanvas \/ AdjustSize \/ CropCentered \/ Pixelate
    \/ GetImageData \/ FlattenAlpha \/ ReduceColors \/ PutImageData \/ Publish

\* the event loop runs a pending callback, and a callback that has started
\* runs on to its return
SpecLive == Init /\ [][NextLive]_vars /\ WF_vars(NextPipeline)

\* a step of processImage: a request is started
RequestStarts == runs' = runs + 1

\* the callback has run and has left the busy state on
StuckBusy == processing /\ Len(timer) = 0 /\ pc = "idle"

\* C26 as stated: once processImage has set processing, processing becomes
\* false again and the processed canvas is published, whatever path the
\* deferred callback takes; and no request starts while processing is true.
C26_BusyStateEnds ==
    /\ processing ~> (~processing /\ processedCanvas # NullRef /\ showPreview)
    /\ [][RequestStarts => (~processing /\ processing' /\ Len(timer') = 1)]_vars

\* the part of C26 about the button: a request starts only when processing
\* is false, and while processing is true the process button is disabled
C26_NoRequestWhileBusy ==
    /\ [](processing => ~ENABLED ProcessImage)
    /\ [][RequestStarts => (~processing /\ processing' /\ Len(timer') = 1)]_vars

\* without a 2d context the callback returns at App.tsx 462: from then on
\* processing stays true
C26_StuckStaysStuck == [][StuckBusy => StuckBusy']_vars

\* the callback found no 2d context: nothing was published, the busy state
\* is on and no timer is pending
C26_StuckWitness ==
    /\ StuckBusy
    /\ runs = 1
    /\ processedCanvas = NullRef /\ ~showPreview
    /\ currentImage # NoImage

=============================================================================
